---- MODULE Spec2Model ----
(***************************************************************************)
(* A model of inspect_step.py: the extraction of steps from a JSON         *)
(* document, the label sanitizer, the input-value resolver, the trigger    *)
(* classifier, the Graph and the Mermaid renderer.                         *)
(*                                                                         *)
(* A Python str is a sequence of one-character strings, so that the        *)
(* character-level functions (replace, split, lower, "in") are computed    *)
(* as the code computes them.  Python's None is the value None below.      *)
(***************************************************************************)
EXTENDS Integers, Sequences, FiniteSets, TLC

VARIABLES pc,      \* which function of the program has run
          doc,     \* load_steps: the JSON document (data)
          steps,   \* load_steps: the returned list
          text,    \* sanitize_label: its argument
          label,   \* sanitize_label: its result
          iv,      \* describe_input_value: the Input Value
          ctx,     \* describe_input_value: the resolution context
          desc,    \* describe_input_value: its result
          trigger_objs,  \* categorize_step_triggers: its argument
          cats,    \* categorize_step_triggers: its result
          graph,   \* a Graph: its nodes (in insertion order) and edges
          calls,   \* the add_node and add_edge calls made on graph so far
          step,    \* main: the selected step
          trig_index,      \* main: the triggers by identifier
          widget_index,    \* main: the widgets by identifier
          steps_index,     \* main: the steps by identifier
          logic_triggers,  \* main: the triggers on the step, in insertion order
          mermaid, \* emit_combined_mermaid: the returned text
          twin,    \* a second run of main, on a document that differs from
                   \* the first in the contents of its expression strings
          tqs,     \* load_table_queries: the returned list
          stdout,  \* main: the lines printed so far
          err      \* main: the exception that ended the run, None when none

vars == <<pc, doc, steps, text, label, iv, ctx, desc, trigger_objs, cats,
          graph, calls, step, trig_index, widget_index, steps_index,
          logic_triggers, mermaid, twin, tqs, stdout, err>>

\* The value of a variable the running specification does not use.
Idle == <<>>

\* The variables of each part of the program.
stepsVars == <<doc, steps>>
labelVars == <<text, label>>
descVars == <<iv, ctx, desc>>
catsVars == <<trigger_objs, cats>>
graphVars == <<graph, calls>>
mainVars == <<step, trig_index, widget_index, steps_index, logic_triggers,
              mermaid, twin>>

\* A part of the program that the running specification does not use.
NoSteps == doc = Idle /\ steps = Idle
NoLabel == text = Idle /\ label = Idle
NoDesc == iv = Idle /\ ctx = Idle /\ desc = Idle
NoCats == trigger_objs = Idle /\ cats = Idle
NoGraph == graph = Idle /\ calls = Idle
startVars == <<tqs, stdout, err>>
NoStart == tqs = Idle /\ stdout = Idle /\ err = Idle
NoMain ==
  /\ step = Idle /\ trig_index = Idle /\ widget_index = Idle
  /\ steps_index = Idle /\ logic_triggers = Idle /\ mermaid = Idle
  /\ twin = Idle


(***************************************************************************)
(* Python values                                                           *)
(***************************************************************************)
\* None: a one-fragment sequence no str equals (a str holds single characters).
None == <<"<None>">>

\* bool(x) for a str or None.
Truthy(x) == x # None /\ x # <<>>

\* a or b
PyOr(a, b) == IF Truthy(a) THEN a ELSE b

\* str(x) as an f-string renders it.
PyStr(x) == IF x = None THEN <<"N", "o", "n", "e">> ELSE x

(***************************************************************************)
(* JSON values, for the functions that walk an arbitrary document.  A dict *)
(* is the sequence of its <<key, value>> pairs in insertion order.         *)
(***************************************************************************)
JNull == [t |-> "null"]
JStr(s) == [t |-> "str", s |-> s]
JList(xs) == [t |-> "list", xs |-> xs]
JDict(kv) == [t |-> "dict", kv |-> kv]

\* bool(v) of a JSON value.
JTruthy(v) ==
  CASE v.t = "null" -> FALSE
    [] v.t = "str" -> v.s # <<>>
    [] v.t = "list" -> v.xs # <<>>
    [] v.t = "dict" -> v.kv # <<>>

\* d.get(k): the value under key k, None (JNull) when absent.
JGet(d, k) ==
  IF \E i \in 1..Len(d.kv) : d.kv[i][1] = k
  THEN d.kv[CHOOSE i \in 1..Len(d.kv) : d.kv[i][1] = k][2]
  ELSE JNull

\* item.get("_id") or item.get("id")
JIdOf(item) == IF JTruthy(JGet(item, "_id")) THEN JGet(item, "_id") ELSE JGet(item, "id")

\* The concatenation of the sequences of a sequence.
RECURSIVE Flatten(_)
Flatten(ss) == IF ss = <<>> THEN <<>> ELSE Head(ss) \o Flatten(Tail(ss))

(***************************************************************************)
(* _collect_steps_anywhere and load_steps                                  *)
(***************************************************************************)
\* isinstance(item, dict) and (item.get("_id") or item.get("id"))
StepLike(item) == item.t = "dict" /\ JTruthy(JIdOf(item))

RECURSIVE collect_steps_anywhere(_)
collect_steps_anywhere(node) ==
  CASE node.t = "dict" ->
         Flatten([i \in 1..Len(node.kv) |->
           LET key == node.kv[i][1]
               value == node.kv[i][2]
           IN (IF key = "steps" /\ value.t = "list"
               THEN SelectSeq(value.xs, StepLike)
               ELSE <<>>)
              \o collect_steps_anywhere(value)])
    [] node.t = "list" ->
         Flatten([i \in 1..Len(node.xs) |-> collect_steps_anywhere(node.xs[i])])
    [] OTHER -> <<>>

\* The loop body of load_steps: by_id is the insertion-ordered dict, kept as
\* the sequence of its <<sid, step>> items.
ByIdHas(by_id, sid) == \E i \in 1..Len(by_id) : by_id[i][1] = sid

\* A dedupe that overwrites: by_id[sid] = s without the membership test.
ByIdPutLast(by_id, s) ==
  LET sid == JIdOf(s)
  IN IF ~JTruthy(sid) THEN by_id
     ELSE IF ByIdHas(by_id, sid)
          THEN [i \in 1..Len(by_id) |->
                  IF by_id[i][1] = sid THEN <<sid, s>> ELSE by_id[i]]
          ELSE Append(by_id, <<sid, s>>)

ByIdPut(by_id, s) ==
  LET sid == JIdOf(s)
  IN IF JTruthy(sid) /\ ~ByIdHas(by_id, sid) THEN Append(by_id, <<sid, s>>) ELSE by_id

RECURSIVE DedupeFrom(_, _, _)
DedupeFrom(all_steps, i, by_id) ==
  IF i > Len(all_steps) THEN by_id
  ELSE DedupeFrom(all_steps, i + 1, ByIdPut(by_id, all_steps[i]))

load_steps(data) ==
  LET by_id == DedupeFrom(collect_steps_anywhere(data), 1, <<>>)
  IN [i \in 1..Len(by_id) |-> by_id[i][2]]

(***************************************************************************)
(* The documents load_steps is run on: a main "steps" list, a step nested  *)
(* inside its first item, a sibling "steps" list inside "groups", and a    *)
(* step-like list under a key that is not "steps".                         *)
(***************************************************************************)
MaxLen == 2

StepId1 == <<"s", "1">>
StepId2 == <<"s", "2">>
DigitChars == <<"1", "2", "3", "4", "5", "6", "7", "8", "9">>

\* How a list item carries its identifier.
ItemForms == {"_id1", "_id2", "id1", "empty_id", "noid", "str"}

\* The item of form f; name tells the records of one identifier apart, and
\* kids, when not empty, is the item's own nested "steps" list.
Item(f, name, kids) ==
  LET nested == IF kids = <<>> THEN <<>> ELSE << <<"steps", JList(kids)>> >>
      nm == << <<"name", JStr(name)>> >>
  IN CASE f = "_id1" -> JDict(<< <<"_id", JStr(StepId1)>> >> \o nm \o nested)
       [] f = "_id2" -> JDict(<< <<"_id", JStr(StepId2)>> >> \o nm \o nested)
       [] f = "id1" -> JDict(<< <<"id", JStr(StepId1)>> >> \o nm \o nested)
       [] f = "empty_id" ->
            JDict(<< <<"_id", JStr(<<>>)>>, <<"id", JStr(StepId2)>> >> \o nm \o nested)
       [] f = "noid" -> JDict(nm \o nested)
       [] f = "str" -> JStr(name)

FormLists == UNION {[1..n -> ItemForms] : n \in 0..MaxLen}
OptForm == {<<>>} \cup {<<f>> : f \in ItemForms}

MakeDoc(main, nest, sib, stages, groupsFirst) ==
  LET kids == [i \in 1..Len(nest) |-> Item(nest[i], <<"n">>, <<>>)]
      mainList == [i \in 1..Len(main) |->
                     Item(main[i], <<"a", DigitChars[i]>>, IF i = 1 THEN kids ELSE <<>>)]
      sibList == [i \in 1..Len(sib) |-> Item(sib[i], <<"g">>, <<>>)]
      kSteps == << <<"steps", JList(mainList)>> >>
      kGroups == << <<"groups", JList(<<JDict(<< <<"steps", JList(sibList)>> >>)>>)>> >>
      kStages == IF stages
                 THEN << <<"stages", JList(<<Item("_id2", <<"z">>, <<>>)>>)>> >>
                 ELSE <<>>
  IN JDict(kStages \o (IF groupsFirst THEN kGroups \o kSteps ELSE kSteps \o kGroups))

Docs == {MakeDoc(main, nest, sib, stages, gf) :
           main \in FormLists, nest \in OptForm, sib \in OptForm,
           stages \in BOOLEAN, gf \in BOOLEAN}

InitSteps ==
  /\ pc = "start"
  /\ doc \in Docs
  /\ steps = Idle
  /\ NoLabel
  /\ NoDesc
  /\ NoCats
  /\ NoGraph
  /\ NoMain
  /\ NoStart

LoadSteps ==
  /\ pc = "start"
  /\ steps' = load_steps(doc)
  /\ pc' = "done"
  /\ UNCHANGED <<doc, labelVars, descVars, catsVars, graphVars, mainVars, startVars>>

NextSteps == LoadSteps

SpecSteps == InitSteps /\ [][NextSteps]_vars

\* The identifiers of the step-like items of every list under a key "steps".
RECURSIVE IdsUnderSteps(_)
IdsUnderSteps(node) ==
  CASE node.t = "dict" ->
         UNION {(IF node.kv[i][1] = "steps" /\ node.kv[i][2].t = "list"
                 THEN {JIdOf(node.kv[i][2].xs[j]) :
                         j \in {k \in 1..Len(node.kv[i][2].xs) : StepLike(node.kv[i][2].xs[k])}}
                 ELSE {})
                \cup IdsUnderSteps(node.kv[i][2]) : i \in 1..Len(node.kv)}
    [] node.t = "list" -> UNION {IdsUnderSteps(node.xs[i]) : i \in 1..Len(node.xs)}
    [] OTHER -> {}

\* C1: load_steps returns exactly one step per distinct identifier found in
\* a list under a key "steps" at any depth, and the record kept for an
\* identifier is the first one the tree walk meets.
C1_OnePerIdFirstWins ==
  pc = "done" =>
    LET walk == collect_steps_anywhere(doc)
    IN /\ {JIdOf(steps[i]) : i \in 1..Len(steps)} = IdsUnderSteps(doc)
       /\ \A i, j \in 1..Len(steps) : JIdOf(steps[i]) = JIdOf(steps[j]) => i = j
       /\ \A i \in 1..Len(steps) :
            \E k \in 1..Len(walk) :
              /\ walk[k] = steps[i]
              /\ \A m \in 1..(k - 1) : JIdOf(walk[m]) # JIdOf(steps[i])

\* One identifier met four times (twice in the main list, nested, and in the
\* sibling list) is kept once.
C1_Witness ==
  /\ pc = "done"
  /\ Len(steps) = 1
  /\ Len(collect_steps_anywhere(doc)) >= 4
  /\ JGet(doc, "stages") # JNull

(***************************************************************************)
(* sanitize_label                                                          *)
(***************************************************************************)
MaxLabel == 120
KeepLabel == 117

Whitespace == {" ", "\t", "\n"}

\* text starts with pat at position i.
MatchesAt(txt, pat, i) ==
  /\ i + Len(pat) - 1 <= Len(txt)
  /\ \A k \in 1..Len(pat) : txt[i + k - 1] = pat[k]

\* text.replace(pat, ''): every occurrence of pat is removed.  No string
\* of Stripped overlaps itself, so the occurrences are the non-overlapping
\* ones str.replace takes from left to right.
InMatch(txt, pat, i) ==
  \E j \in (i - Len(pat) + 1)..i : j >= 1 /\ MatchesAt(txt, pat, j)

Unmarked(p) == ~p[2]

Remove(txt, pat) ==
  LET marked == [i \in 1..Len(txt) |-> <<txt[i], InMatch(txt, pat, i)>>]
      kept == SelectSeq(marked, Unmarked)
  IN [i \in 1..Len(kept) |-> kept[i][1]]

\* The strings the loop of sanitize_label removes, in its order.
Stripped == << <<"\"">>, <<"\\">>, <<"{">>, <<"}">>, <<"[">>, <<"]">>, <<"d", "m", "s">> >>

RECURSIVE StripFrom(_, _)
StripFrom(txt, i) ==
  IF i > Len(Stripped) THEN txt ELSE StripFrom(Remove(txt, Stripped[i]), i + 1)

\* text.split(): the maximal runs of non-whitespace characters, in order.
WordStarts(txt) ==
  {i \in 1..Len(txt) : txt[i] \notin Whitespace /\ (i = 1 \/ txt[i - 1] \in Whitespace)}

WordEnd(txt, i) ==
  CHOOSE j \in i..Len(txt) :
    /\ \A k \in i..j : txt[k] \notin Whitespace
    /\ (j = Len(txt) \/ txt[j + 1] \in Whitespace)

\* The k-th smallest element of a set of numbers.
Nth(S, k) == CHOOSE i \in S : Cardinality({j \in S : j <= i}) = k

Split(txt) ==
  LET starts == WordStarts(txt)
  IN [k \in 1..Cardinality(starts) |->
        SubSeq(txt, Nth(starts, k), WordEnd(txt, Nth(starts, k)))]

\* sep.join(parts)
RECURSIVE Join(_, _)
Join(parts, sep) ==
  IF parts = <<>> THEN <<>>
  ELSE IF Len(parts) = 1 THEN parts[1]
  ELSE parts[1] \o sep \o Join(Tail(parts), sep)

Truncate(txt) ==
  IF Len(txt) > MaxLabel THEN SubSeq(txt, 1, KeepLabel) \o <<".", ".", ".">> ELSE txt

sanitize_label(txt) ==
  IF txt = None THEN <<>>
  ELSE Truncate(Join(Split(StripFrom(txt, 1)), <<" ">>))

\* The labels sanitize_label is run on: a short text over the characters the
\* sanitizer treats specially, alone or after a run that brings the text to
\* the truncation limit.
MaxText == 6
MaxTail == 3
PadLen == 119
LabelChars == {"d", "m", "s", "\"", " "}
Pad == [i \in 1..PadLen |-> "a"]
Texts == UNION {[1..n -> LabelChars] : n \in 0..MaxText}
           \cup {Pad \o tail : tail \in UNION {[1..n -> LabelChars] : n \in 0..MaxTail}}

InitLabel ==
  /\ pc = "start"
  /\ text \in Texts \cup {None}
  /\ label = Idle
  /\ NoSteps
  /\ NoDesc
  /\ NoCats
  /\ NoGraph
  /\ NoMain
  /\ NoStart

SanitizeLabel ==
  /\ pc = "start"
  /\ label' = sanitize_label(text)
  /\ pc' = "done"
  /\ UNCHANGED <<text, stepsVars, descVars, catsVars, graphVars, mainVars, startVars>>

NextLabel == SanitizeLabel

SpecLabel == InitLabel /\ [][NextLabel]_vars

\* C2: sanitize_label is idempotent: sanitizing the label it returned gives
\* that label again.
C2_Idempotent == pc = "done" => sanitize_label(label) = label

(***************************************************************************)
(* describe_input_value                                                    *)
(*                                                                         *)
(* An Input Value, a variable, a slot, a table query and an aggregation    *)
(* are records of the fields the code reads; a field the dict does not     *)
(* hold (or holds as null) is None, as dict.get returns it.  An index is   *)
(* a function from identifiers to records.                                 *)
(***************************************************************************)
\* The key "value" is not in the Input Value ("value" in iv is False).
Absent == <<"<absent>">>

DsVariable == <<"v", "a", "r", "i", "a", "b", "l", "e">>
DsSlot == <<"d", "a", "t", "a", "M", "o", "d", "e", "l", "S", "l", "o", "t">>
DsAggregation == <<"t", "a", "b", "l", "e", "A", "g", "g", "r", "e", "g", "a", "t", "i", "o", "n">>
DsStatic == <<"s", "t", "a", "t", "i", "c">>

\* index.get(id)
Indexed(index, id) == id \in DOMAIN index

\* The first aggregation of tq whose version-set id equals vs_id: the loop
\* of lines 472-475 stops at it.  0 when there is none.
FirstMatch(tq, vs_id) ==
  LET hits == {i \in 1..Len(tq.aggregations) :
                 tq.aggregations[i].aggregationVersionSetId = vs_id}
  IN IF hits = {} THEN 0 ELSE CHOOSE i \in hits : \A j \in hits : i <= j

\* The last lines of describe_input_value without the test of the
\* expression string.
DescribeRestNoExpr(v) == PyOr(v.datasourceType, <<"?">>)

\* The last lines with the expression itself in place of the marker.
DescribeRestVerbatim(v) ==
  IF Truthy(PyOr(v.exprStr, v.expression)) THEN PyOr(v.exprStr, v.expression)
  ELSE PyOr(v.datasourceType, <<"?">>)

\* The last line without its "?" default.
DescribeRestNoDefault(v) ==
  IF Truthy(PyOr(v.exprStr, v.expression)) THEN <<"e", "x", "p", "r">>
  ELSE v.datasourceType

\* The last lines of describe_input_value: the expression marker, else the
\* raw source kind, else "?".
DescribeRest(v) ==
  IF Truthy(PyOr(v.exprStr, v.expression)) THEN <<"e", "x", "p", "r">>
  ELSE PyOr(v.datasourceType, <<"?">>)

\* The label of a tableAggregation Input Value, with the aggregation's
\* label taken even when it is empty.
AggLabelNoFallback(v, c) ==
  LET tq_id == v.appTableQueryId
      vs_id == v.tableAggregationVersionSetId
  IN IF Truthy(tq_id) /\ Indexed(c.tq_index, tq_id)
     THEN LET tq == c.tq_index[tq_id]
              k == FirstMatch(tq, vs_id)
          IN IF k # 0
             THEN PyOr(tq.aggregations[k].label, tq.aggregations[k].aggregationId)
             ELSE PyOr(tq.label, tq_id)
     ELSE tq_id

\* The label of a tableAggregation Input Value (lines 465-479).
AggLabel(v, c) ==
  LET tq_id == v.appTableQueryId
      vs_id == v.tableAggregationVersionSetId
  IN IF Truthy(tq_id) /\ Indexed(c.tq_index, tq_id)
     THEN LET tq == c.tq_index[tq_id]
              k == FirstMatch(tq, vs_id)
              agg_label == IF k = 0 THEN None
                           ELSE PyOr(tq.aggregations[k].label,
                                     tq.aggregations[k].aggregationId)
          IN IF Truthy(agg_label) THEN agg_label ELSE PyOr(tq.label, tq_id)
     ELSE tq_id

describe_input_value(v, c) ==
  LET ds == v.datasourceType
      var_id == PyOr(v.variableId, v.variable)
      slot_id == v.dataModelSlot
  IN IF ds = DsVariable /\ Truthy(var_id)
     THEN <<"v", "a", "r", ":">> \o PyStr(IF Indexed(c.var_index, var_id)
                            THEN c.var_index[var_id].name ELSE var_id)
     ELSE IF ds = DsSlot /\ Truthy(slot_id)
     THEN <<"d", "m", "s", ":">> \o PyStr(IF Indexed(c.dms_index, slot_id)
                            THEN c.dms_index[slot_id].name ELSE slot_id)
     ELSE IF ds = DsAggregation
     THEN <<"a", "g", "g", ":">> \o PyStr(AggLabel(v, c))
     ELSE IF ds = DsStatic /\ v.value # Absent
     THEN <<"s", "t", "a", "t", "i", "c", ":">> \o PyStr(v.value)
     ELSE DescribeRest(v)


\* The Input Values and contexts describe_input_value is run on.
MaxAggs == 2

Var1 == <<"v", "1">>
Var9 == <<"v", "9">>
Slot1 == <<"d", "1">>
Slot9 == <<"d", "9">>
Query1 == <<"q", "1">>
Query9 == <<"q", "9">>
VersionSet1 == <<"x", "1">>
VersionSet2 == <<"x", "2">>

\* An Input Value with no field.
EmptyIV ==
  [datasourceType |-> None, variableId |-> None, variable |-> None,
   dataModelSlot |-> None, appTableQueryId |-> None,
   tableAggregationVersionSetId |-> None, value |-> Absent,
   exprStr |-> None, expression |-> None, stepId |-> None, step_id |-> None]

AllDs == {None, <<>>, DsVariable, DsSlot, DsAggregation, DsStatic, <<"c", "u", "s", "t", "o", "m">>}

\* <<exprStr, expression>>
ExprFields == {<<None, None>>, <<<<"a", "+", "b">>, None>>, <<None, <<"c">>>>,
               <<<<>>, <<"c">>>>, <<<<>>, None>>}

WithExpr(v, e) == [v EXCEPT !.exprStr = e[1], !.expression = e[2]]

VarIVs ==
  {WithExpr([EmptyIV EXCEPT !.datasourceType = ds, !.variableId = id[1],
                            !.variable = id[2]], e) :
     ds \in AllDs, e \in ExprFields,
     id \in {<<None, None>>, <<Var1, None>>, <<Var9, None>>, <<None, Var1>>,
             <<<<>>, Var9>>}}

SlotIVs ==
  {WithExpr([EmptyIV EXCEPT !.datasourceType = ds, !.dataModelSlot = id], e) :
     ds \in AllDs, e \in ExprFields, id \in {None, <<>>, Slot1, Slot9}}

StaticIVs ==
  {WithExpr([EmptyIV EXCEPT !.datasourceType = ds, !.value = val], e) :
     ds \in AllDs, e \in ExprFields, val \in {Absent, None, <<>>, <<"5">>}}

AggIVs ==
  {WithExpr([EmptyIV EXCEPT !.datasourceType = ds, !.appTableQueryId = q,
                            !.tableAggregationVersionSetId = vs], e) :
     ds \in {DsAggregation, <<"c", "u", "s", "t", "o", "m">>}, e \in {<<None, None>>, <<<<"a", "+", "b">>, None>>},
     q \in {None, Query1, Query9}, vs \in {None, VersionSet1}}

\* An Input Value with the fields of every kind at once.
FullIVs ==
  {WithExpr([EmptyIV EXCEPT !.datasourceType = ds, !.variableId = Var1,
                            !.dataModelSlot = Slot1, !.appTableQueryId = Query1,
                            !.tableAggregationVersionSetId = VersionSet1,
                            !.value = <<"5">>], e) :
     ds \in AllDs, e \in ExprFields}

\* A variable or slot index: empty, or one entry with or without a name.
NameIndexes(id, name) ==
  {<<>>} \cup {(id :> [name |-> n]) : n \in {None, name}}

\* The aggregations of a query: each with one of three version-set ids (or
\* none), with or without a label and an aggregation id of its own.
AggForms == {<<vs, l, a>> : vs \in {None, VersionSet1, VersionSet2},
                            l \in BOOLEAN, a \in BOOLEAN}

Aggregations(forms) ==
  [i \in 1..Len(forms) |->
     [aggregationVersionSetId |-> forms[i][1],
      label |-> IF forms[i][2] THEN <<"L", DigitChars[i]>> ELSE None,
      aggregationId |-> IF forms[i][3] THEN <<"A", DigitChars[i]>> ELSE None]]

QueryIndexes ==
  {<<>>} \cup
  {(Query1 :> [label |-> l, aggregations |-> Aggregations(forms)]) :
     l \in {None, <<"Q", "u", "e">>},
     forms \in UNION {[1..n -> AggForms] : n \in 0..MaxAggs}}

Ctx(vi, di, ti) == [var_index |-> vi, dms_index |-> di, tq_index |-> ti]

FullCtx ==
  Ctx(Var1 :> [name |-> <<"C", "o", "u", "n", "t">>], Slot1 :> [name |-> <<"S", "h", "i", "f", "t">>],
      Query1 :> [label |-> <<"Q", "u", "e">>,
                 aggregations |-> Aggregations(<<<<VersionSet1, TRUE, TRUE>>>>)])

DescInputs ==
  {<<v, Ctx(vi, <<>>, <<>>)>> : v \in VarIVs, vi \in NameIndexes(Var1, <<"C", "o", "u", "n", "t">>)}
    \cup {<<v, Ctx(<<>>, di, <<>>)>> : v \in SlotIVs, di \in NameIndexes(Slot1, <<"S", "h", "i", "f", "t">>)}
    \cup {<<v, Ctx(<<>>, <<>>, <<>>)>> : v \in StaticIVs}
    \cup {<<v, Ctx(<<>>, <<>>, ti)>> : v \in AggIVs, ti \in QueryIndexes}
    \cup {<<v, FullCtx>> : v \in FullIVs}

InitDesc ==
  /\ pc = "start"
  /\ \E in \in DescInputs : iv = in[1] /\ ctx = in[2]
  /\ desc = Idle
  /\ NoSteps
  /\ NoLabel
  /\ NoCats
  /\ NoGraph
  /\ NoMain
  /\ NoStart

DescribeInputValue ==
  /\ pc = "start"
  /\ desc' = describe_input_value(iv, ctx)
  /\ pc' = "done"
  /\ UNCHANGED <<iv, ctx, stepsVars, labelVars, catsVars, graphVars, mainVars, startVars>>

NextDesc == DescribeInputValue

SpecDesc == InitDesc /\ [][NextDesc]_vars

C4_VarId == PyOr(iv.variableId, iv.variable)

\* C4: for an Input Value of kind 'variable' carrying variable identifier
\* v, the description is 'var:' followed by the name of the variable
\* indexed under v when v is in the variable index, and 'var:' followed by
\* v otherwise; nothing else follows 'var:'.
C4_VarNameOrId ==
  (pc = "done" /\ iv.datasourceType = DsVariable /\ Truthy(C4_VarId)) =>
    IF Indexed(ctx.var_index, C4_VarId)
    THEN desc = <<"v", "a", "r", ":">> \o ctx.var_index[C4_VarId].name
    ELSE desc = <<"v", "a", "r", ":">> \o C4_VarId

\* The aggregations of the indexed query of the Input Value whose
\* version-set id equals the Input Value's.
C5_Matches ==
  LET aggs == ctx.tq_index[iv.appTableQueryId].aggregations
  IN {i \in 1..Len(aggs) :
        aggs[i].aggregationVersionSetId = iv.tableAggregationVersionSetId}

C5_Case ==
  /\ pc = "done"
  /\ iv.datasourceType = DsAggregation
  /\ Truthy(iv.appTableQueryId)
  /\ iv.tableAggregationVersionSetId # None

\* C5 as claimed: for a 'tableAggregation' Input Value with query id q and
\* version-set id s, the description is 'agg:' followed by the label (else
\* the aggregation id) of the aggregation of q whose version-set id is s, if
\* q is indexed and such an aggregation exists; else the label of q if q is
\* indexed; else q.
C5_AggCascade ==
  C5_Case =>
    LET q == iv.appTableQueryId
    IN IF Indexed(ctx.tq_index, q) /\ C5_Matches # {}
       THEN \E i \in C5_Matches :
              LET agg == ctx.tq_index[q].aggregations[i]
              IN desc = <<"a", "g", "g", ":">> \o PyOr(agg.label, agg.aggregationId)
       ELSE IF Indexed(ctx.tq_index, q)
       THEN desc = <<"a", "g", "g", ":">> \o PyOr(ctx.tq_index[q].label, q)
       ELSE desc = <<"a", "g", "g", ":">> \o q

\* C5 as amended: 'agg:' is followed by the label (else the aggregation id)
\* of the first aggregation of q whose version-set id is s, if q is indexed
\* and that aggregation has a label or an aggregation id; else by the label
\* of q if q is indexed and has one; else by q.
C5_AggFirstLabelled ==
  C5_Case =>
    LET q == iv.appTableQueryId
        first == IF Indexed(ctx.tq_index, q) /\ C5_Matches # {}
                 THEN CHOOSE i \in C5_Matches : \A j \in C5_Matches : i <= j
                 ELSE 0
        own == IF first = 0 THEN None
               ELSE PyOr(ctx.tq_index[q].aggregations[first].label,
                         ctx.tq_index[q].aggregations[first].aggregationId)
    IN IF Truthy(own) THEN desc = <<"a", "g", "g", ":">> \o own
       ELSE IF Indexed(ctx.tq_index, q) /\ Truthy(ctx.tq_index[q].label)
       THEN desc = <<"a", "g", "g", ":">> \o ctx.tq_index[q].label
       ELSE desc = <<"a", "g", "g", ":">> \o q

\* Two aggregations have the version-set id; the first has no label and no
\* aggregation id, the second has a label: the query's label is used.
C5_Witness ==
  /\ C5_Case
  /\ Indexed(ctx.tq_index, iv.appTableQueryId)
  /\ C5_Matches = {1, 2}
  /\ ctx.tq_index[iv.appTableQueryId].aggregations[1].label = None
  /\ ctx.tq_index[iv.appTableQueryId].aggregations[1].aggregationId = None
  /\ ctx.tq_index[iv.appTableQueryId].aggregations[2].label # None
  /\ desc = <<"a", "g", "g", ":", "Q", "u", "e">>

C6_HasExpr == Truthy(PyOr(iv.exprStr, iv.expression))

\* C6 as claimed: every Input Value that carries a non-empty expression
\* string is described by the marker 'expr', whatever its other fields.
C6_ExprAlways == (pc = "done" /\ C6_HasExpr) => desc = <<"e", "x", "p", "r">>

\* The Input Value is resolved by its source kind: a variable or slot with
\* its identifier, a table aggregation, or a static with a value.
C6_ResolvedByKind ==
  \/ iv.datasourceType = DsVariable /\ Truthy(PyOr(iv.variableId, iv.variable))
  \/ iv.datasourceType = DsSlot /\ Truthy(iv.dataModelSlot)
  \/ iv.datasourceType = DsAggregation
  \/ iv.datasourceType = DsStatic /\ iv.value # Absent

\* C6 as amended: every Input Value that carries a non-empty expression
\* string and is not resolved by its source kind is described by the
\* marker 'expr'.
C6_ExprUnlessKind ==
  (pc = "done" /\ C6_HasExpr /\ ~C6_ResolvedByKind) => desc = <<"e", "x", "p", "r">>

\* A 'variable' Input Value with no variable identifier and an expression
\* under 'expression' only.
C6_Witness ==
  /\ pc = "done"
  /\ iv.datasourceType = DsVariable
  /\ ~Truthy(PyOr(iv.variableId, iv.variable))
  /\ ~Truthy(iv.exprStr)
  /\ Truthy(iv.expression)
  /\ desc = <<"e", "x", "p", "r">>


(***************************************************************************)
(* get_trigger_event_type and categorize_step_triggers                     *)
(*                                                                         *)
(* A trigger is the record of the fields the code reads.  Its "event" is   *)
(* NoDict when the field is absent or not a dict, else the record of the   *)
(* dict's "type".  A null entry of the list (trig_index.get of an          *)
(* identifier that does not resolve) is NullTrigger.                       *)
(***************************************************************************)
NoDict == [absent |-> TRUE]
IsDict(x) == "absent" \notin DOMAIN x

NullTrigger == [null |-> TRUE]
IsNull(t) == "null" \in DOMAIN t

UpperCase == <<"A", "B", "C", "D", "E", "F", "G", "H", "I", "J", "K", "L", "M", "N", "O", "P", "Q", "R", "S", "T", "U", "V", "W", "X", "Y", "Z">>
LowerCase == <<"a", "b", "c", "d", "e", "f", "g", "h", "i", "j", "k", "l", "m", "n", "o", "p", "q", "r", "s", "t", "u", "v", "w", "x", "y", "z">>

\* str.lower()
LowerChar(c) ==
  IF \E i \in 1..Len(UpperCase) : UpperCase[i] = c
  THEN LowerCase[CHOOSE i \in 1..Len(UpperCase) : UpperCase[i] = c]
  ELSE c

Lower(s) == [i \in 1..Len(s) |-> LowerChar(s[i])]

\* sub in s
Contains(sub, s) == \E i \in 1..(Len(s) - Len(sub) + 1) : MatchesAt(s, sub, i)

\* The flat fields of get_trigger_event_type, in its order.
FlatEventType(trigger) ==
  IF trigger.eventType # None THEN trigger.eventType
  ELSE IF trigger.event_type # None THEN trigger.event_type
  ELSE IF trigger.triggerEventType # None THEN trigger.triggerEventType
  ELSE IF trigger.type # None THEN trigger.type
  ELSE <<"U", "N", "K", "N", "O", "W", "N">>

get_trigger_event_type(trigger) ==
  IF IsDict(trigger.event) /\ trigger.event.type # None
  THEN trigger.event.type
  ELSE FlatEventType(trigger)

\* The if/elif chain with the exit keywords tested before the entry keywords
\* and the device keywords before the timer keywords.
BucketSwapped(et_lower) ==
  IF \/ Contains(<<"s", "t", "e", "p", "_", "c", "l", "o", "s", "e", "d">>, et_lower) \/ Contains(<<"s", "t", "e", "p", "_", "c", "l", "o", "s", "e">>, et_lower)
     \/ Contains(<<"s", "t", "e", "p", "_", "e", "x", "i", "t">>, et_lower)
  THEN "step_closed"
  ELSE IF Contains(<<"s", "t", "e", "p", "_", "o", "p", "e", "n">>, et_lower) \/ Contains(<<"s", "t", "e", "p", "_", "e", "n", "t", "e", "r">>, et_lower)
  THEN "step_open"
  ELSE IF \/ Contains(<<"m", "a", "c", "h", "i", "n", "e", "s", "_", "o", "u", "t", "p", "u", "t">>, et_lower) \/ Contains(<<"m", "a", "c", "h", "i", "n", "e">>, et_lower)
          \/ Contains(<<"d", "e", "v", "i", "c", "e">>, et_lower)
  THEN "machines_output"
  ELSE IF Contains(<<"i", "n", "t", "e", "r", "v", "a", "l">>, et_lower) \/ Contains(<<"t", "i", "m", "e", "r">>, et_lower)
  THEN "interval"
  ELSE "other"

\* The if/elif chain of lines 112-125: the key of cats the trigger is
\* appended to.
Bucket(et_lower) ==
  IF Contains(<<"s", "t", "e", "p", "_", "o", "p", "e", "n">>, et_lower) \/ Contains(<<"s", "t", "e", "p", "_", "e", "n", "t", "e", "r">>, et_lower)
  THEN "step_open"
  ELSE IF \/ Contains(<<"s", "t", "e", "p", "_", "c", "l", "o", "s", "e", "d">>, et_lower) \/ Contains(<<"s", "t", "e", "p", "_", "c", "l", "o", "s", "e">>, et_lower)
          \/ Contains(<<"s", "t", "e", "p", "_", "e", "x", "i", "t">>, et_lower)
  THEN "step_closed"
  ELSE IF Contains(<<"i", "n", "t", "e", "r", "v", "a", "l">>, et_lower) \/ Contains(<<"t", "i", "m", "e", "r">>, et_lower)
  THEN "interval"
  ELSE IF \/ Contains(<<"m", "a", "c", "h", "i", "n", "e", "s", "_", "o", "u", "t", "p", "u", "t">>, et_lower) \/ Contains(<<"m", "a", "c", "h", "i", "n", "e">>, et_lower)
          \/ Contains(<<"d", "e", "v", "i", "c", "e">>, et_lower)
  THEN "machines_output"
  ELSE "other"

EmptyCats ==
  [step_open |-> <<>>, interval |-> <<>>, machines_output |-> <<>>,
   step_closed |-> <<>>, other |-> <<>>]

\* One turn of the loop of categorize_step_triggers.
Categorize(c, trig) ==
  IF IsNull(trig) THEN c
  ELSE LET b == Bucket(Lower(get_trigger_event_type(trig)))
       IN [c EXCEPT ![b] = Append(c[b], trig)]

RECURSIVE CategorizeFrom(_, _, _)
CategorizeFrom(objs, i, c) ==
  IF i > Len(objs) THEN c ELSE CategorizeFrom(objs, i + 1, Categorize(c, objs[i]))

categorize_step_triggers(objs) == CategorizeFrom(objs, 1, EmptyCats)

\* The trigger lists categorize_step_triggers is run on.
MaxTrigs == 2

\* A trigger with no field but its identifier.
EmptyTrigger(id) ==
  [_id |-> id, id |-> None, description |-> None, label |-> None, name |-> None,
   event |-> NoDict, eventType |-> None, event_type |-> None,
   triggerEventType |-> None, type |-> None, clauses |-> <<>>]

EventTypes ==
  {<<"S", "T", "E", "P", "_", "O", "P", "E", "N">>, <<"o", "n", "_", "s", "t", "e", "p", "_", "e", "n", "t", "e", "r">>, <<"S", "t", "e", "p", "_", "C", "l", "o", "s", "e", "d">>, <<"s", "t", "e", "p", "_", "c", "l", "o", "s", "e">>, <<"S", "T", "E", "P", "_", "E", "X", "I", "T">>,
   <<"i", "n", "t", "e", "r", "v", "a", "l">>, <<"T", "i", "m", "e", "r">>, <<"m", "a", "c", "h", "i", "n", "e", "s", "_", "o", "u", "t", "p", "u", "t">>, <<"M", "a", "c", "h", "i", "n", "e">>, <<"d", "e", "v", "i", "c", "e">>,
   <<"w", "i", "d", "g", "e", "t", "_", "c", "l", "i", "c", "k">>, <<>>, <<"s", "t", "e", "p", "_", "e", "x", "i", "t", "_", "t", "i", "m", "e", "r">>, <<"t", "i", "m", "e", "r", "_", "d", "e", "v", "i", "c", "e">>,
   <<"s", "t", "e", "p", "_", "e", "n", "t", "e", "r", "_", "s", "t", "e", "p", "_", "e", "x", "i", "t">>, <<"m", "a", "c", "h", "i", "n", "e", "_", "i", "n", "t", "e", "r", "v", "a", "l">>}

\* How a trigger carries its event type: in event.type, or in a flat field
\* (with or without an event dict that has no type), or both.
TriggerForms ==
  {[f |-> "event", et |-> et] : et \in EventTypes}
    \cup {[f |-> f, et |-> <<"i", "n", "t", "e", "r", "v", "a", "l">>] :
            f \in {"eventType", "event_type", "triggerEventType", "type", "event_no_type"}}
    \cup {[f |-> f, et |-> <<"d", "e", "v", "i", "c", "e">>] : f \in {"both", "flat_both", "none", "null"}}

Trigger(form, id) ==
  LET t == EmptyTrigger(id)
      f == form.f
  IN CASE f = "event" -> [t EXCEPT !.event = [type |-> form.et]]
       [] f = "eventType" -> [t EXCEPT !.eventType = form.et]
       [] f = "event_type" -> [t EXCEPT !.event_type = form.et]
       [] f = "triggerEventType" -> [t EXCEPT !.triggerEventType = form.et]
       [] f = "type" -> [t EXCEPT !.type = form.et]
       [] f = "event_no_type" ->
            [t EXCEPT !.event = [type |-> None], !.eventType = form.et]
       [] f = "both" ->
            [t EXCEPT !.event = [type |-> <<"s", "t", "e", "p", "_", "o", "p", "e", "n">>], !.eventType = form.et]
       [] f = "flat_both" -> [t EXCEPT !.event_type = <<"t", "i", "m", "e", "r">>, !.type = form.et]
       [] f = "none" -> t
       [] f = "null" -> NullTrigger

TriggerLists ==
  {[i \in 1..Len(forms) |-> Trigger(forms[i], <<"t", DigitChars[i]>>)] :
     forms \in UNION {[1..n -> TriggerForms] : n \in 0..MaxTrigs}}

InitCats ==
  /\ pc = "start"
  /\ trigger_objs \in TriggerLists
  /\ cats = Idle
  /\ NoSteps
  /\ NoLabel
  /\ NoDesc
  /\ NoGraph
  /\ NoMain
  /\ NoStart

CategorizeStepTriggers ==
  /\ pc = "start"
  /\ cats' = categorize_step_triggers(trigger_objs)
  /\ pc' = "done"
  /\ UNCHANGED <<trigger_objs, stepsVars, labelVars, descVars, graphVars, mainVars, startVars>>

NextCats == CategorizeStepTriggers

SpecCats == InitCats /\ [][NextCats]_vars

\* Some keyword of the group is in the lower-cased event type.
C8_HasAny(keywords, trig) ==
  \E k \in keywords : Contains(k, Lower(get_trigger_event_type(trig)))

C8_Groups ==
  << <<"step_open", {<<"s", "t", "e", "p", "_", "o", "p", "e", "n">>, <<"s", "t", "e", "p", "_", "e", "n", "t", "e", "r">>}>>,
     <<"step_closed", {<<"s", "t", "e", "p", "_", "c", "l", "o", "s", "e", "d">>, <<"s", "t", "e", "p", "_", "c", "l", "o", "s", "e">>, <<"s", "t", "e", "p", "_", "e", "x", "i", "t">>}>>,
     <<"interval", {<<"i", "n", "t", "e", "r", "v", "a", "l">>, <<"t", "i", "m", "e", "r">>}>>,
     <<"machines_output", {<<"m", "a", "c", "h", "i", "n", "e", "s", "_", "o", "u", "t", "p", "u", "t">>, <<"m", "a", "c", "h", "i", "n", "e">>, <<"d", "e", "v", "i", "c", "e">>}>> >>

\* The bucket of the first keyword group that matches, "other" when none does.
C8_Bucket(trig) ==
  LET hits == {g \in 1..Len(C8_Groups) : C8_HasAny(C8_Groups[g][2], trig)}
  IN IF hits = {} THEN "other"
     ELSE C8_Groups[CHOOSE g \in hits : \A h \in hits : g <= h][1]

\* C8: every non-null trigger of the input is in exactly one of the five
\* buckets, the one of the first keyword group (entry, exit, timer, device,
\* else other) that matches its lower-cased event type; null entries are in
\* no bucket; each bucket keeps the input order.
C8_OneBucketInOrder ==
  pc = "done" =>
    LET bucketOf == [i \in 1..Len(trigger_objs) |->
                       IF IsNull(trigger_objs[i]) THEN "none"
                       ELSE C8_Bucket(trigger_objs[i])]
    IN /\ DOMAIN cats = {"step_open", "interval", "machines_output", "step_closed", "other"}
       /\ \A b \in DOMAIN cats :
            LET members == {i \in 1..Len(trigger_objs) : bucketOf[i] = b}
            IN /\ Len(cats[b]) = Cardinality(members)
               /\ \A k \in 1..Len(cats[b]) : cats[b][k] = trigger_objs[Nth(members, k)]

\* A null entry is dropped and a trigger whose event type holds a timer and
\* a device keyword is in the timer bucket only.
C8_Witness ==
  /\ pc = "done"
  /\ Len(trigger_objs) = 2
  /\ IsNull(trigger_objs[1])
  /\ ~IsNull(trigger_objs[2])
  /\ get_trigger_event_type(trigger_objs[2]) = <<"t", "i", "m", "e", "r", "_", "d", "e", "v", "i", "c", "e">>
  /\ cats = [EmptyCats EXCEPT !.interval = <<trigger_objs[2]>>]


(***************************************************************************)
(* class Graph.  nodes is the insertion-ordered dict, kept as the sequence *)
(* of its entries; the kinds are the code's own constants.                 *)
(***************************************************************************)
NewGraph == [nodes |-> <<>>, edges |-> <<>>]

\* node_id in self.nodes
HasNode(g, node_id) == \E i \in 1..Len(g.nodes) : g.nodes[i].id = node_id

\* self.nodes[node_id]
NodeOf(g, node_id) == g.nodes[CHOOSE i \in 1..Len(g.nodes) : g.nodes[i].id = node_id]

\* An add_node without the membership test: the entry is overwritten.
add_node_overwrite(g, node_id, kind, lbl) ==
  IF HasNode(g, node_id)
  THEN [g EXCEPT !.nodes = [i \in 1..Len(g.nodes) |->
                              IF g.nodes[i].id = node_id
                              THEN [id |-> node_id, kind |-> kind, label |-> lbl]
                              ELSE g.nodes[i]]]
  ELSE [g EXCEPT !.nodes = Append(@, [id |-> node_id, kind |-> kind, label |-> lbl])]

add_node(g, node_id, kind, lbl) ==
  IF HasNode(g, node_id) THEN g
  ELSE [g EXCEPT !.nodes = Append(@, [id |-> node_id, kind |-> kind, label |-> lbl])]

add_edge(g, src, dst, kind, lbl) ==
  [g EXCEPT !.edges = Append(@, [src |-> src, dst |-> dst, kind |-> kind, label |-> lbl])]

\* The calls made on a Graph.
MaxCalls == 4
NodeIds == {<<"s", "t", "e", "p", "_", "s", "1">>, <<"t", "r", "i", "g", "_", "t", "1">>}
NodeKinds == {"step", "trigger"}
NodeLabels == {<<"P", "a", "c", "k">>, <<"t", "1">>}
EdgeLabels == {<<"g", "o">>}

InitGraph ==
  /\ pc = "graph"
  /\ graph = NewGraph
  /\ calls = <<>>
  /\ NoSteps
  /\ NoLabel
  /\ NoDesc
  /\ NoCats
  /\ NoMain
  /\ NoStart

AddNode ==
  /\ pc = "graph"
  /\ Len(calls) < MaxCalls
  /\ \E node_id \in NodeIds, kind \in NodeKinds, lbl \in NodeLabels :
       /\ graph' = add_node(graph, node_id, kind, lbl)
       /\ calls' = Append(calls, [op |-> "add_node", id |-> node_id,
                                  kind |-> kind, label |-> lbl])
  /\ UNCHANGED <<pc, stepsVars, labelVars, descVars, catsVars, mainVars, startVars>>

AddEdge ==
  /\ pc = "graph"
  /\ Len(calls) < MaxCalls
  /\ \E src \in NodeIds, dst \in NodeIds, lbl \in EdgeLabels :
       /\ graph' = add_edge(graph, src, dst, "event", lbl)
       /\ calls' = Append(calls, [op |-> "add_edge", src |-> src, dst |-> dst,
                                  kind |-> "event", label |-> lbl])
  /\ UNCHANGED <<pc, stepsVars, labelVars, descVars, catsVars, mainVars, startVars>>

NextGraph == AddNode \/ AddEdge

SpecGraph == InitGraph /\ [][NextGraph]_vars

\* The add_node calls that are the first for their node id.
C9_FirstAdds ==
  {i \in 1..Len(calls) :
     /\ calls[i].op = "add_node"
     /\ \A j \in 1..(i - 1) : calls[j].op = "add_node" => calls[j].id # calls[i].id}

C9_EdgeCalls == {i \in 1..Len(calls) : calls[i].op = "add_edge"}

\* C9: after any sequence of add_node and add_edge calls the graph holds one
\* node per node id, with the kind and label of the first add_node call for
\* that id, in the order of those first calls, and its edges are those of
\* the add_edge calls: an add_node for an id already present changes
\* neither the nodes nor the edges.
C9_FirstInsertionWins ==
  pc = "graph" =>
    /\ Len(graph.nodes) = Cardinality(C9_FirstAdds)
    /\ \A k \in 1..Len(graph.nodes) :
         LET c == calls[Nth(C9_FirstAdds, k)]
         IN graph.nodes[k] = [id |-> c.id, kind |-> c.kind, label |-> c.label]
    /\ Len(graph.edges) = Cardinality(C9_EdgeCalls)
    /\ \A k \in 1..Len(graph.edges) :
         LET c == calls[Nth(C9_EdgeCalls, k)]
         IN graph.edges[k] = [src |-> c.src, dst |-> c.dst, kind |-> c.kind,
                              label |-> c.label]

\* A node is added, an edge is added, and the node is added again with
\* another kind and label: the first kind and label are kept.
C9_Witness ==
  /\ pc = "graph"
  /\ Len(calls) = 3
  /\ calls[1].op = "add_node"
  /\ calls[2].op = "add_edge"
  /\ calls[3].op = "add_node"
  /\ calls[3].id = calls[1].id
  /\ calls[3].kind # calls[1].kind
  /\ calls[3].label # calls[1].label
  /\ Len(graph.nodes) = 1
  /\ graph.nodes[1].label = calls[1].label
  /\ Len(graph.edges) = 1


(***************************************************************************)
(* Widgets: get_widget_type, is_button_widget, get_widget_name,            *)
(* get_button_text, get_widget_trigger_ids.                                *)
(*                                                                         *)
(* A widget is the record of the fields the code reads; each of its        *)
(* containers (props, properties, config, options) is NoDict or the record *)
(* of the container's fields.  A list field that is absent is the empty    *)
(* list: the code extends ids by nothing in both cases.                    *)
(***************************************************************************)
\* A list item that is not a str.
NotStr == <<"<not str>">>
IsStrItem(x) == x # NotStr /\ x # None

EmptyContainer ==
  [text |-> None, label |-> None, buttonText |-> None, caption |-> None,
   triggers |-> <<>>, triggerIds |-> <<>>, trigger_ids |-> <<>>]

EmptyWidget(id) ==
  [_id |-> id, id |-> None, name |-> None, label |-> None, text |-> None,
   type |-> None, widgetType |-> None, kind |-> None, widget_type |-> None,
   triggers |-> <<>>, triggerIds |-> <<>>, trigger_ids |-> <<>>,
   props |-> NoDict, properties |-> NoDict, config |-> NoDict, options |-> NoDict]

Containers(widget) == <<widget.props, widget.properties, widget.config, widget.options>>

get_widget_type(widget) ==
  IF widget.type # None THEN widget.type
  ELSE IF widget.widgetType # None THEN widget.widgetType
  ELSE IF widget.kind # None THEN widget.kind
  ELSE IF widget.widget_type # None THEN widget.widget_type
  ELSE <<"U", "n", "k", "n", "o", "w", "n", "W", "i", "d", "g", "e", "t", "T", "y", "p", "e">>

is_button_widget(widget) == Contains(<<"b", "u", "t", "t", "o", "n">>, Lower(get_widget_type(widget)))

get_widget_name(widget) == PyOr(widget.name, PyOr(widget.label, <<"(", "n", "o", " ", "n", "a", "m", "e", ")">>))

\* The first truthy text of the containers that are dicts, None when none.
ContainerText(c) ==
  IF ~IsDict(c) THEN None
  ELSE IF Truthy(c.text) THEN c.text
  ELSE IF Truthy(c.label) THEN c.label
  ELSE IF Truthy(c.buttonText) THEN c.buttonText
  ELSE IF Truthy(c.caption) THEN c.caption
  ELSE None

RECURSIVE FirstContainerText(_, _)
FirstContainerText(cs, i) ==
  IF i > Len(cs) THEN None
  ELSE IF Truthy(ContainerText(cs[i])) THEN ContainerText(cs[i])
  ELSE FirstContainerText(cs, i + 1)

get_button_text(widget) ==
  IF Truthy(widget.text) THEN widget.text
  ELSE IF Truthy(widget.label) THEN widget.label
  ELSE FirstContainerText(Containers(widget), 1)

\* The first occurrence of each element, in order.
Dedupe(ids) ==
  LET firsts == {i \in 1..Len(ids) : \A j \in 1..(i - 1) : ids[j] # ids[i]}
  IN [k \in 1..Cardinality(firsts) |-> ids[Nth(firsts, k)]]

\* The str items of the three trigger lists of a widget or a container.
TriggerIdFields(d) ==
  SelectSeq(d.triggers, IsStrItem) \o SelectSeq(d.triggerIds, IsStrItem)
    \o SelectSeq(d.trigger_ids, IsStrItem)

\* get_widget_trigger_ids without the dedupe of lines 343-349.
get_widget_trigger_ids_all(widget) ==
  LET cs == Containers(widget)
  IN TriggerIdFields(widget)
     \o Flatten([i \in 1..Len(cs) |->
                   IF IsDict(cs[i]) THEN TriggerIdFields(cs[i]) ELSE <<>>])

get_widget_trigger_ids(widget) ==
  LET cs == Containers(widget)
  IN Dedupe(TriggerIdFields(widget)
            \o Flatten([i \in 1..Len(cs) |->
                          IF IsDict(cs[i]) THEN TriggerIdFields(cs[i]) ELSE <<>>]))

(***************************************************************************)
(* index_by_id and build_graph_for_step.                                   *)
(*                                                                         *)
(* A step, a clause, a condition and an action are the records of the      *)
(* fields the code reads.  The body of build_graph_for_step is the list of *)
(* its add_node and add_edge calls, in order, applied to a new Graph.      *)
(***************************************************************************)
\* item.get("_id") or item.get("id")
IdOf(item) == PyOr(item._id, item.id)

\* index_by_id: a later item of the same identifier replaces an earlier one.
index_by_id(items) ==
  LET ids == {IdOf(items[i]) : i \in {k \in 1..Len(items) : Truthy(IdOf(items[k]))}}
  IN [x \in ids |->
        items[CHOOSE i \in 1..Len(items) :
                /\ IdOf(items[i]) = x
                /\ \A j \in (i + 1)..Len(items) : IdOf(items[j]) # x]]

EmptyStep(id) ==
  [_id |-> id, id |-> None, name |-> None, triggers |-> <<>>, widgets |-> <<>>]

EmptyCondition ==
  [type |-> None, conditionType |-> None, input_values |-> <<>>, inputs |-> <<>>]

EmptyAction ==
  [type |-> None, actionType |-> None, is_transition |-> FALSE,
   isTransition |-> FALSE, input_values |-> <<>>, inputs |-> <<>>]

NodeCall(node_id, kind, lbl) ==
  [op |-> "add_node", id |-> node_id, kind |-> kind, label |-> lbl]

EdgeCall(src, dst, kind, lbl) ==
  [op |-> "add_edge", src |-> src, dst |-> dst, kind |-> kind, label |-> lbl]

ApplyCall(g, c) ==
  IF c.op = "add_node" THEN add_node(g, c.id, c.kind, c.label)
  ELSE add_edge(g, c.src, c.dst, c.kind, c.label)

RECURSIVE ApplyCalls(_, _, _)
ApplyCalls(g, cs, i) ==
  IF i > Len(cs) THEN g ELSE ApplyCalls(ApplyCall(g, cs[i]), cs, i + 1)

\* trig.get("description") or trig.get("label") or trig.get("name") or tid
TriggerLabel(trig, tid) ==
  PyOr(trig.description, PyOr(trig.label, PyOr(trig.name, tid)))

StepNodeId(step_id) == <<"s", "t", "e", "p", "_">> \o PyStr(step_id)
TrigNodeId(tid) == <<"t", "r", "i", "g", "_">> \o PyStr(tid)
WidNodeId(wid) == <<"w", "i", "d", "_">> \o PyStr(wid)

\* The calls for one transition action without the add_node of line 569.
ActionCallsNoNode(action, trig_node_id, all_steps_index) ==
  IF ~(action.is_transition \/ action.isTransition) THEN <<>>
  ELSE Flatten([k \in 1..Len(action.input_values) |->
         LET target == PyOr(action.input_values[k].stepId, action.input_values[k].step_id)
         IN IF ~Truthy(target) THEN <<>>
            ELSE <<EdgeCall(trig_node_id, StepNodeId(target), "transition",
                            PyOr(action.type, <<"t", "r", "a", "n", "s", "i", "t", "i", "o", "n">>))>>])

\* Lines 558-576: the calls for one transition action.
ActionCalls(action, trig_node_id, all_steps_index) ==
  IF ~(action.is_transition \/ action.isTransition) THEN <<>>
  ELSE Flatten([k \in 1..Len(action.input_values) |->
         LET target == PyOr(action.input_values[k].stepId, action.input_values[k].step_id)
         IN IF ~Truthy(target) THEN <<>>
            ELSE <<NodeCall(StepNodeId(target), "step",
                            IF Indexed(all_steps_index, target)
                            THEN all_steps_index[target].name ELSE target),
                   EdgeCall(trig_node_id, StepNodeId(target), "transition",
                            PyOr(action.type, <<"t", "r", "a", "n", "s", "i", "t", "i", "o", "n">>))>>])

\* Lines 554-576: the calls for the clauses of one trigger.
TransitionCalls(trig, trig_node_id, all_steps_index) ==
  Flatten([c \in 1..Len(trig.clauses) |->
    Flatten([a \in 1..Len(trig.clauses[c].actions) |->
      ActionCalls(trig.clauses[c].actions[a], trig_node_id, all_steps_index)])])

\* Lines 536-576: the calls for one trigger identifier of the step.
StepTriggerCalls(step_node_id, tid, trigs, all_steps_index) ==
  IF ~Indexed(trigs, tid) THEN <<>>
  ELSE LET trig == trigs[tid]
       IN <<NodeCall(TrigNodeId(tid), "trigger", TriggerLabel(trig, tid)),
            EdgeCall(step_node_id, TrigNodeId(tid), "event", get_trigger_event_type(trig))>>
          \o TransitionCalls(trig, TrigNodeId(tid), all_steps_index)

\* Lines 579-610: the calls for one widget identifier of the step.
WidgetCalls(wid, trigs, widgets) ==
  IF ~Indexed(widgets, wid) THEN <<>>
  ELSE LET w == widgets[wid]
           trig_ids == get_widget_trigger_ids(w)
           wlabel == IF is_button_widget(w) /\ Truthy(get_button_text(w))
                     THEN <<"B", "u", "t", "t", "o", "n", ":", " ">> \o get_button_text(w)
                     ELSE get_widget_name(w)
       IN IF trig_ids = <<>> THEN <<>>
          ELSE <<NodeCall(WidNodeId(wid), "widget", wlabel)>>
               \o Flatten([k \in 1..Len(trig_ids) |->
                    IF ~Indexed(trigs, trig_ids[k]) THEN <<>>
                    ELSE <<NodeCall(TrigNodeId(trig_ids[k]), "trigger",
                                    TriggerLabel(trigs[trig_ids[k]], trig_ids[k])),
                           EdgeCall(WidNodeId(wid), TrigNodeId(trig_ids[k]),
                                    "widget_event", <<"c", "l", "i", "c", "k">>)>>])

\* The calls of build_graph_for_step with the widget loop before the
\* trigger loop.
BuildCallsWidgetsFirst(the_step, trigs, widgets, all_steps_index) ==
  LET step_node_id == StepNodeId(the_step._id)
  IN <<NodeCall(step_node_id, "step", PyOr(the_step.name, the_step._id))>>
     \o Flatten([i \in 1..Len(the_step.widgets) |->
          WidgetCalls(the_step.widgets[i], trigs, widgets)])
     \o Flatten([i \in 1..Len(the_step.triggers) |->
          StepTriggerCalls(step_node_id, the_step.triggers[i], trigs, all_steps_index)])

\* The add_node and add_edge calls of build_graph_for_step, in order.
BuildCalls(the_step, trigs, widgets, all_steps_index) ==
  LET step_id == the_step._id
      step_node_id == StepNodeId(step_id)
  IN <<NodeCall(step_node_id, "step", PyOr(the_step.name, step_id))>>
     \o Flatten([i \in 1..Len(the_step.triggers) |->
          StepTriggerCalls(step_node_id, the_step.triggers[i], trigs, all_steps_index)])
     \o Flatten([i \in 1..Len(the_step.widgets) |->
          WidgetCalls(the_step.widgets[i], trigs, widgets)])

build_graph_for_step(the_step, trigs, widgets, all_steps_index) ==
  ApplyCalls(NewGraph, BuildCalls(the_step, trigs, widgets, all_steps_index), 1)


(***************************************************************************)
(* build_condition_label, format_dm_action_label, emit_combined_mermaid.   *)
(***************************************************************************)
\* cond.get("input_values", []) or cond.get("inputs", [])
InputValuesOf(x) == IF x.input_values # <<>> THEN x.input_values ELSE x.inputs

\* The truthy descriptions of the Input Values, in order.
Refs(ivs, c) ==
  SelectSeq([k \in 1..Len(ivs) |-> describe_input_value(ivs[k], c)], Truthy)

build_condition_label(cond, c) ==
  LET c_type == PyOr(cond.type, PyOr(cond.conditionType, <<"c", "o", "n", "d", "i", "t", "i", "o", "n">>))
      refs == Refs(InputValuesOf(cond), c)
  IN IF refs # <<>> THEN c_type \o <<"(">> \o Join(refs, <<",", " ">>) \o <<")">>
     ELSE c_type

LoadRecord == <<"l", "o", "a", "d", "_", "d", "a", "t", "a", "_", "m", "o", "d", "e", "l", "_", "r", "e", "c", "o", "r", "d">>
UnloadRecord == <<"u", "n", "l", "o", "a", "d", "_", "d", "a", "t", "a", "_", "m", "o", "d", "e", "l", "_", "r", "e", "c", "o", "r", "d">>
CreateOrLoadRecord == <<"c", "r", "e", "a", "t", "e", "_", "o", "r", "_", "l", "o", "a", "d", "_", "d", "a", "t", "a", "_", "m", "o", "d", "e", "l", "_", "r", "e", "c", "o", "r", "d">>

\* Lines 650-660: slot_name and source_desc after the Input Values from i on.
RECURSIVE DmScan(_, _, _, _, _)
DmScan(ivs, i, slot_name, source_desc, c) ==
  IF i > Len(ivs) THEN [slot_name |-> slot_name, source_desc |-> source_desc]
  ELSE LET ds == ivs[i].datasourceType
           slot_id == ivs[i].dataModelSlot
       IN IF ds = DsSlot /\ ~Truthy(slot_name)
          THEN DmScan(ivs, i + 1,
                      IF Truthy(slot_id) /\ Indexed(c.dms_index, slot_id)
                      THEN c.dms_index[slot_id].name ELSE slot_id,
                      source_desc, c)
          ELSE IF ds \in {DsAggregation, DsVariable, DsStatic} /\ ~Truthy(source_desc)
          THEN DmScan(ivs, i + 1, slot_name, describe_input_value(ivs[i], c), c)
          ELSE DmScan(ivs, i + 1, slot_name, source_desc, c)

format_dm_action_label(atype, ivs, c) ==
  LET found == DmScan(ivs, 1, None, None, c)
      verb == IF atype = LoadRecord THEN <<"L", "o", "a", "d", " ", "r", "e", "c", "o", "r", "d">>
              ELSE IF atype = UnloadRecord THEN <<"U", "n", "l", "o", "a", "d", " ", "r", "e", "c", "o", "r", "d">>
              ELSE IF atype = CreateOrLoadRecord THEN <<"C", "r", "e", "a", "t", "e", " ", "o", "r", " ", "l", "o", "a", "d", " ", "r", "e", "c", "o", "r", "d">>
              ELSE atype
  IN Join(<<verb>>
          \o (IF Truthy(found.slot_name) THEN <<<<":">> \o found.slot_name>> ELSE <<>>)
          \o (IF Truthy(found.source_desc)
              THEN <<<<"f", "r", "o", "m", " ">> \o found.source_desc>> ELSE <<>>),
          <<" ">>)

\* str(n) of a natural number.
Digits == <<"0", "1", "2", "3", "4", "5", "6", "7", "8", "9">>
RECURSIVE IntStr(_)
IntStr(n) ==
  IF n < 10 THEN <<Digits[n + 1]>> ELSE IntStr(n \div 10) \o <<Digits[(n % 10) + 1]>>

\* Lines 694-705: the line of one node of the graph.
NodeLine(node) ==
  LET lbl == sanitize_label(node.label)
      shape == IF node.kind = "step" THEN <<"[", "\"">> \o lbl \o <<"\"", "]">>
               ELSE IF node.kind = "trigger" THEN <<"(", "\"", "T", "r", "i", "g", ":", " ">> \o lbl \o <<"\"", ")">>
               ELSE <<"{", "\"", "W", "i", "d", "g", "e", "t", ":", " ">> \o lbl \o <<"\"", "}">>
  IN <<" ", " ">> \o node.id \o shape

\* Lines 707-714: the line of one edge of the graph.
EdgeLine(e) ==
  LET lbl == sanitize_label(PyOr(e.label, <<>>))
  IN IF lbl # <<>>
     THEN <<" ", " ">> \o e.src \o <<" ", "-", "-", ">", "|">> \o lbl \o <<"|", " ">> \o e.dst
     ELSE <<" ", " ">> \o e.src \o <<" ", "-", "-", ">", " ">> \o e.dst

\* Lines 755-774: the label of one action.
ActionLabel(a, c) ==
  LET atype == PyOr(a.type, PyOr(a.actionType, <<"A", "C", "T", "I", "O", "N">>))
      ivs == InputValuesOf(a)
      refs == Refs(ivs, c)
  IN IF atype \in {LoadRecord, UnloadRecord, CreateOrLoadRecord}
     THEN format_dm_action_label(atype, ivs, c)
     ELSE IF Join(refs, <<",", " ">>) # <<>>
     THEN atype \o <<"(">> \o Join(refs, <<",", " ">>) \o <<")">>
     ELSE atype

\* Lines 739-781: the node identifiers of a clause, None for a node it lacks.
ClauseInfo(base, clause, idx) ==
  [cond_id |-> IF clause.conditions # <<>>
               THEN base \o <<"_", "c">> \o IntStr(idx) ELSE None,
   act_id |-> IF clause.actions # <<>>
              THEN base \o <<"_", "a">> \o IntStr(idx) ELSE None]

\* Lines 744-779: the node lines of one clause.
ClauseLines(base, clause, idx, c) ==
  LET cinfo == ClauseInfo(base, clause, idx)
      actions == clause.actions
  IN (IF clause.conditions # <<>>
      THEN <<<<" ", " ", " ", " ">> \o cinfo.cond_id \o <<"{", "\"">>
             \o sanitize_label(build_condition_label(clause.conditions[1], c))
             \o <<"\"", "}">>>>
      ELSE <<>>)
     \o
     (IF actions # <<>>
      THEN <<<<" ", " ", " ", " ">> \o cinfo.act_id \o <<"[", "\"">>
             \o sanitize_label(Join([k \in 1..Len(actions) |->
                                       ActionLabel(actions[k], c)], <<";", " ">>))
             \o <<"\"", "]">>>>
      ELSE <<>>)

\* Lines 784-790: the edge from the start marker.
StartEdge(base, clause_nodes) ==
  IF clause_nodes = <<>> THEN <<>>
  ELSE IF clause_nodes[1].cond_id # None
  THEN <<<<" ", " ", " ", " ">> \o base \o <<"_", "s", "t", "a", "r", "t", " ", "-", "-", ">", " ">> \o clause_nodes[1].cond_id>>
  ELSE IF clause_nodes[1].act_id # None
  THEN <<<<" ", " ", " ", " ">> \o base \o <<"_", "s", "t", "a", "r", "t", " ", "-", "-", ">", " ">> \o clause_nodes[1].act_id>>
  ELSE <<>>

TrueLine(src, dst) == <<" ", " ", " ", " ">> \o src \o <<" ", "-", "-", ">", "|", "t", "r", "u", "e", "|", " ">> \o dst
FalseLine(src, dst) == <<" ", " ", " ", " ">> \o src \o <<" ", "-", "-", ">", "|", "f", "a", "l", "s", "e", "|", " ">> \o dst

\* Lines 798-799: the TRUE path of clause i.
TrueEdge(clause_nodes, i) ==
  IF clause_nodes[i].cond_id # None /\ clause_nodes[i].act_id # None
  THEN <<TrueLine(clause_nodes[i].cond_id, clause_nodes[i].act_id)>>
  ELSE <<>>

\* The FALSE path of clause i always led to the next clause's action node.
FalseEdgeToAction(clause_nodes, i) ==
  IF clause_nodes[i].cond_id # None /\ i + 1 <= Len(clause_nodes)
     /\ clause_nodes[i + 1].act_id # None
  THEN <<FalseLine(clause_nodes[i].cond_id, clause_nodes[i + 1].act_id)>>
  ELSE <<>>

\* Lines 802-808: the FALSE path of clause i.
FalseEdge(clause_nodes, i) ==
  IF clause_nodes[i].cond_id = None \/ i + 1 > Len(clause_nodes) THEN <<>>
  ELSE IF clause_nodes[i + 1].cond_id # None
  THEN <<FalseLine(clause_nodes[i].cond_id, clause_nodes[i + 1].cond_id)>>
  ELSE IF clause_nodes[i + 1].act_id # None
  THEN <<FalseLine(clause_nodes[i].cond_id, clause_nodes[i + 1].act_id)>>
  ELSE <<>>

\* Lines 718-814: the lines of the logic subgraph of one trigger.
LogicLines(trig, g, c) ==
  LET trig_id == IdOf(trig)
      base == <<"t", "r", "i", "g", "_">> \o PyStr(trig_id)
      clauses == trig.clauses
      clause_nodes == [idx \in 1..Len(clauses) |-> ClauseInfo(base, clauses[idx], idx)]
  IN IF ~Truthy(trig_id) THEN <<>>
     ELSE <<<<" ", " ", "s", "u", "b", "g", "r", "a", "p", "h", " ">> \o base \o <<"_", "l", "o", "g", "i", "c", "[", "\"", "L", "o", "g", "i", "c", ":", " ">>
              \o sanitize_label(TriggerLabel(trig, trig_id)) \o <<"\"", "]">>,
            <<" ", " ", " ", " ">> \o base \o <<"_", "s", "t", "a", "r", "t", "(", "(", "\"", "s", "t", "a", "r", "t", "\"", ")", ")">>>>
          \o Flatten([idx \in 1..Len(clauses) |-> ClauseLines(base, clauses[idx], idx, c)])
          \o StartEdge(base, clause_nodes)
          \o Flatten([i \in 1..Len(clause_nodes) |->
                        TrueEdge(clause_nodes, i) \o FalseEdge(clause_nodes, i)])
          \o <<<<" ", " ", "e", "n", "d">>>>
          \o (IF HasNode(g, base) THEN <<<<" ", " ">> \o base \o <<" ", "-", "-", ">", " ">> \o base \o <<"_", "s", "t", "a", "r", "t">>>>
              ELSE <<>>)

\* The lines of the diagram, in order.
MermaidLines(g, logic, c) ==
  <<<<"f", "l", "o", "w", "c", "h", "a", "r", "t", " ", "L", "R">>>>
  \o [k \in 1..Len(g.nodes) |-> NodeLine(g.nodes[k])]
  \o [k \in 1..Len(g.edges) |-> EdgeLine(g.edges[k])]
  \o Flatten([k \in 1..Len(logic) |-> LogicLines(logic[k], g, c)])

emit_combined_mermaid(g, logic, c) == Join(MermaidLines(g, logic, c), <<"\n">>)


(***************************************************************************)
(* main, lines 936-986: the triggers on the step are collected, then the   *)
(* graph of the step is built and the diagram is emitted.                  *)
(***************************************************************************)
\* Lines 943, 966-971: the identifiers of the direct triggers of the step.
DirectIds(the_step, trigs) ==
  LET objs == SelectSeq(the_step.triggers, LAMBDA tid : Indexed(trigs, tid))
  IN SelectSeq([k \in 1..Len(objs) |-> IdOf(trigs[objs[k]])], Truthy)

\* Lines 954-958, 974-978: the identifiers of the widget-attached triggers.
WidgetIds(the_step, trigs, widgets) ==
  LET objs == SelectSeq(the_step.widgets,
                        LAMBDA wid : /\ Indexed(widgets, wid)
                                     /\ get_widget_trigger_ids(widgets[wid]) # <<>>)
  IN SelectSeq(Flatten([k \in 1..Len(objs) |-> get_widget_trigger_ids(widgets[objs[k]])]),
               LAMBDA tid : Indexed(trigs, tid))

\* logic_triggers without the widget-attached triggers of lines 973-978.
LogicTriggersDirect(the_step, trigs, widgets) ==
  LET ids == Dedupe(DirectIds(the_step, trigs))
  IN [k \in 1..Len(ids) |-> trigs[ids[k]]]

\* Lines 963-978: logic_triggers, as the list of its values in the order of
\* the first insertion of each key.
LogicTriggers(the_step, trigs, widgets) ==
  LET ids == Dedupe(DirectIds(the_step, trigs) \o WidgetIds(the_step, trigs, widgets))
  IN [k \in 1..Len(ids) |-> trigs[ids[k]]]

\* Line 982: whether there is a diagram to print.
HasDiagram(logic, the_step) ==
  ~(logic = <<>> /\ the_step.triggers = <<>> /\ the_step.widgets = <<>>)

\* The documents main is run on: one step s1 whose trigger t1 has up to
\* MaxClauses clauses, each clause with or without conditions and with no
\* action, one plain action, or a data-model action and a transition.
MaxClauses == 3

Trig1 == <<"t", "1">>
Trig2 == <<"t", "2">>
Trig9 == <<"t", "9">>
Wid1 == <<"w", "1">>
Wid9 == <<"w", "9">>

\* The contents an expression string can have.
ExprContents == {<<"a", "+", "b">>, <<"q", "\"", "d", "m", "s">>}
\* The contents of the expression strings of the conditions (1) and of the
\* actions (2) of a document.
ExprChoices == [1..2 -> ExprContents]

CondForms == {"none", "cond"}
ActionForms == {"none", "call", "dm"}
ClauseForms == CondForms \X ActionForms

Conditions(form, e) ==
  IF form = "none" THEN <<>>
  ELSE <<[EmptyCondition EXCEPT
            !.type = <<"e", "q", "u", "a", "l", "s">>,
            !.inputs = <<[EmptyIV EXCEPT !.datasourceType = DsVariable,
                                         !.variableId = Var1, !.expression = e[1]],
                         [EmptyIV EXCEPT !.exprStr = e[1]]>>],
           [EmptyCondition EXCEPT !.conditionType = <<"s", "e", "c", "o", "n", "d">>]>>

Actions(form, e) ==
  IF form = "none" THEN <<>>
  ELSE IF form = "call"
  THEN <<[EmptyAction EXCEPT
            !.actionType = <<"s", "e", "t">>,
            !.input_values = <<[EmptyIV EXCEPT !.exprStr = <<>>, !.expression = e[2]],
                               [EmptyIV EXCEPT !.datasourceType = DsStatic,
                                               !.value = <<"5">>]>>]>>
  ELSE <<[EmptyAction EXCEPT
            !.type = LoadRecord,
            !.inputs = <<[EmptyIV EXCEPT !.datasourceType = DsSlot,
                                         !.dataModelSlot = Slot1],
                         [EmptyIV EXCEPT !.datasourceType = DsVariable,
                                         !.exprStr = e[2]]>>],
           [EmptyAction EXCEPT
            !.type = <<"g", "o", "t", "o">>, !.is_transition = TRUE,
            !.input_values = <<[EmptyIV EXCEPT !.stepId = StepId2,
                                               !.expression = e[2]]>>]>>

Clauses(forms, e) ==
  [k \in 1..Len(forms) |->
     [conditions |-> Conditions(forms[k][1], e), actions |-> Actions(forms[k][2], e)]]

ClauseFormLists == UNION {[1..n -> ClauseForms] : n \in 0..MaxClauses}

\* How the step refers to its triggers and widgets.
StepForms == {"direct", "both", "widget", "bare"}

Step(form) ==
  [EmptyStep(StepId1) EXCEPT
     !.name = IF form = "direct" THEN <<"P", "a", "c", "k">> ELSE None,
     !.triggers = IF form = "direct" THEN <<Trig1>>
                  ELSE IF form = "both" THEN <<Trig1, Trig9>> ELSE <<>>,
     !.widgets = IF form = "both" THEN <<Wid1, Wid9>>
                 ELSE IF form = "widget" THEN <<Wid1>> ELSE <<>>]

Triggers(form, forms, e) ==
  <<[EmptyTrigger(Trig1) EXCEPT
       !.description = IF form = "direct" THEN <<"O", "n", " ", "o", "p", "e", "n">> ELSE None,
       !.event = [type |-> <<"s", "t", "e", "p", "_", "o", "p", "e", "n">>],
       !.clauses = Clauses(forms, e)],
    [EmptyTrigger(None) EXCEPT
       !.id = Trig2, !.name = <<"P", "r", "e", "s", "s">>, !.eventType = <<"b", "u", "t", "t", "o", "n">>,
       !.clauses = <<[conditions |-> <<>>,
                      actions |-> <<[EmptyAction EXCEPT !.isTransition = TRUE]>>]>>]>>

Widgets(form) ==
  <<[EmptyWidget(Wid1) EXCEPT
       !.widgetType = <<"P", "u", "s", "h", "B", "u", "t", "t", "o", "n">>,
       !.name = <<"G", "o">>,
       !.props = IF form = "both"
                 THEN [EmptyContainer EXCEPT !.caption = <<"S", "t", "a", "r", "t">>,
                                             !.triggerIds = <<Trig2, NotStr, Trig9>>]
                 ELSE NoDict,
       !.triggers = IF form = "widget" THEN <<Trig1>>
                    ELSE IF form = "both" THEN <<Trig2, Trig1>> ELSE <<>>]>>

Steps(form) ==
  <<Step(form), [EmptyStep(StepId2) EXCEPT !.name = <<"N", "e", "x", "t">>]>>

\* The inputs of main and of its second run: every clause list on a step
\* with the one direct trigger, the two runs differing in every expression
\* string; and every step form with a trigger of at most one clause, the two
\* runs having any two choices of expression contents.
AllA == [k \in 1..2 |-> <<"a", "+", "b">>]
AllQ == [k \in 1..2 |-> <<"q", "\"", "d", "m", "s">>]

MainInputs ==
  {[form |-> "direct", forms |-> forms, e1 |-> AllA, e2 |-> AllQ] :
     forms \in ClauseFormLists}
  \cup
  {[form |-> form, forms |-> forms, e1 |-> e1, e2 |-> e2] :
     form \in StepForms, forms \in UNION {[1..n -> ClauseForms] : n \in 0..1},
     e1 \in ExprChoices, e2 \in ExprChoices}

\* A run that has not got to a value yet.
NotYet == <<"<not yet>">>

InitMain ==
  /\ pc = "main"
  /\ \E in \in MainInputs :
       /\ step = Step(in.form)
       /\ steps_index = index_by_id(Steps(in.form))
       /\ widget_index = index_by_id(Widgets(in.form))
       /\ trig_index = index_by_id(Triggers(in.form, in.forms, in.e1))
       /\ twin = [trig_index |-> index_by_id(Triggers(in.form, in.forms, in.e2)),
                  logic_triggers |-> NotYet, graph |-> NotYet, mermaid |-> NotYet]
  /\ ctx = FullCtx
  /\ logic_triggers = NotYet
  /\ graph = NotYet
  /\ mermaid = NotYet
  /\ calls = Idle
  /\ NoSteps
  /\ NoLabel
  /\ iv = Idle /\ desc = Idle
  /\ NoCats
  /\ NoStart

\* Lines 962-978.
CollectLogicTriggers ==
  /\ pc = "main"
  /\ pc' = "collected"
  /\ logic_triggers' = LogicTriggers(step, trig_index, widget_index)
  /\ twin' = [twin EXCEPT
                !.logic_triggers = LogicTriggers(step, twin.trig_index, widget_index)]
  /\ UNCHANGED <<stepsVars, labelVars, descVars, catsVars, graphVars, step,
                 trig_index, widget_index, steps_index, mermaid, startVars>>

\* Lines 982-983.
NoDiagram ==
  /\ pc = "collected"
  /\ ~HasDiagram(logic_triggers, step)
  /\ pc' = "done"
  /\ mermaid' = None
  /\ twin' = [twin EXCEPT
                !.mermaid = IF HasDiagram(twin.logic_triggers, step) THEN @ ELSE None]
  /\ UNCHANGED <<stepsVars, labelVars, descVars, catsVars, graphVars, step,
                 trig_index, widget_index, steps_index, logic_triggers, startVars>>

\* Line 985.
BuildGraph ==
  /\ pc = "collected"
  /\ HasDiagram(logic_triggers, step)
  /\ pc' = "built"
  /\ graph' = build_graph_for_step(step, trig_index, widget_index, steps_index)
  /\ twin' = [twin EXCEPT
                !.graph = IF HasDiagram(twin.logic_triggers, step)
                          THEN build_graph_for_step(step, twin.trig_index,
                                                    widget_index, steps_index)
                          ELSE @]
  /\ UNCHANGED <<stepsVars, labelVars, descVars, catsVars, calls, step,
                 trig_index, widget_index, steps_index, logic_triggers, mermaid, startVars>>

\* Line 986.
EmitCombinedMermaid ==
  /\ pc = "built"
  /\ pc' = "done"
  /\ mermaid' = emit_combined_mermaid(graph, logic_triggers, ctx)
  /\ twin' = [twin EXCEPT
                !.mermaid = IF HasDiagram(twin.logic_triggers, step)
                            THEN emit_combined_mermaid(twin.graph,
                                                       twin.logic_triggers, ctx)
                            ELSE None]
  /\ UNCHANGED <<stepsVars, labelVars, descVars, catsVars, graphVars, step,
                 trig_index, widget_index, steps_index, logic_triggers, startVars>>

NextMain == CollectLogicTriggers \/ NoDiagram \/ BuildGraph \/ EmitCombinedMermaid

SpecMain == InitMain /\ [][NextMain]_vars


\* The first run and the second differ in an expression string of a
\* condition and in one of an action of clause k of trigger t1.
C7_ExprDiffer(k) ==
  LET a == trig_index[Trig1].clauses[k]
      b == twin.trig_index[Trig1].clauses[k]
  IN /\ a.conditions # <<>> /\ a.conditions # b.conditions
     /\ a.actions # <<>> /\ a.actions # b.actions

\* C7: the diagram text does not depend on expression contents: for two
\* documents that are equal except for the contents of non-empty expression
\* strings inside condition and action Input Values, build_graph_for_step
\* followed by emit_combined_mermaid gives the same text for the same step.
C7_SameText == pc = "done" => mermaid = twin.mermaid

\* A diagram was emitted for two documents whose expression strings differ
\* in a condition and in an action of the same clause, and the expression
\* marker is in the text.
C7_Witness ==
  /\ pc = "done"
  /\ mermaid # None
  /\ Contains(<<"(", "v", "a", "r", ":", "C", "o", "u", "n", "t", ",", " ", "e", "x", "p", "r", ")">>, mermaid)
  /\ \E k \in 1..Len(trig_index[Trig1].clauses) : C7_ExprDiffer(k)

\* A line of the diagram text.
LineIn(line, txt) == Contains(<<"\n">> \o line \o <<"\n">>, <<"\n">> \o txt \o <<"\n">>)

\* The decision node and the action node of clause i of a trigger.
C10_Decision(trig, i) == <<"t", "r", "i", "g", "_">> \o IdOf(trig) \o <<"_", "c">> \o IntStr(i)
C10_Action(trig, i) == <<"t", "r", "i", "g", "_">> \o IdOf(trig) \o <<"_", "a">> \o IntStr(i)
C10_HasDecision(trig, i) == trig.clauses[i].conditions # <<>>
C10_HasAction(trig, i) == trig.clauses[i].actions # <<>>

\* The 'true' edge of clause i is in the text when the clause has both nodes.
C10_True(trig, i) ==
  C10_HasDecision(trig, i) /\ C10_HasAction(trig, i)
    => LineIn(<<" ", " ", " ", " ">> \o C10_Decision(trig, i) \o <<" ", "-", "-", ">", "|", "t", "r", "u", "e", "|", " ">>
              \o C10_Action(trig, i), mermaid)

\* The 'false' edge from the decision node of clause i to the decision node
\* of clause i + 1, or to its action node if clause i + 1 is unconditional,
\* is in the text.
C10_False(trig, i) ==
  LineIn(<<" ", " ", " ", " ">> \o C10_Decision(trig, i) \o <<" ", "-", "-", ">", "|", "f", "a", "l", "s", "e", "|", " ">>
         \o (IF C10_HasDecision(trig, i + 1) THEN C10_Decision(trig, i + 1)
             ELSE C10_Action(trig, i + 1)), mermaid)

C10_Emitted == pc = "done" /\ mermaid # None

JHas(d, k) == \E i \in 1..Len(d.kv) : d.kv[i][1] = k

\* The recognized top-level keys, in the order they are read.
QueryKeys == <<"table_queries", "tableQueries", "app_table_queries">>

\* Lines 403-407: the lists under the recognized top-level keys.
TopQueries(data) ==
  IF data.t # "dict" THEN <<>>
  ELSE Flatten([k \in 1..Len(QueryKeys) |->
                  IF JGet(data, QueryKeys[k]).t = "list"
                  THEN JGet(data, QueryKeys[k]).xs ELSE <<>>])

\* "aggregations" in it and "label" in it
LooksLikeQuery(it) == JHas(it, "aggregations") /\ JHas(it, "label")

\* A non-empty list of dicts all of which carry both fields.
C12_ListOfQueries(v) ==
  /\ v.t = "list" /\ v.xs # <<>>
  /\ \A i \in 1..Len(v.xs) : v.xs[i].t = "dict"
  /\ \A i \in 1..Len(v.xs) : LooksLikeQuery(v.xs[i])

\* Lines 415-417: a non-empty list of dicts one of which looks like a query.
QueryList(v) ==
  /\ v.t = "list" /\ v.xs # <<>>
  /\ \A i \in 1..Len(v.xs) : v.xs[i].t = "dict"
  /\ \E i \in 1..Len(v.xs) : LooksLikeQuery(v.xs[i])

\* Lines 411-423: _collect.
RECURSIVE collect_queries(_)
collect_queries(node) ==
  CASE node.t = "dict" ->
         Flatten([i \in 1..Len(node.kv) |->
           (IF QueryList(node.kv[i][2]) THEN node.kv[i][2].xs ELSE <<>>)
           \o collect_queries(node.kv[i][2])])
    [] node.t = "list" ->
         Flatten([i \in 1..Len(node.xs) |-> collect_queries(node.xs[i])])
    [] OTHER -> <<>>

load_table_queries(data) ==
  IF TopQueries(data) # <<>> THEN TopQueries(data) ELSE collect_queries(data)

\* The documents load_table_queries is run on: with or without a recognized
\* top-level key, a list of up to MaxQueries items under a key of a nested
\* dict, and a list of at most one item under a key of a dict of a list.
MaxQueries == 2

QueryForms == {"query", "label_only", "aggregations_only", "str"}

QueryItem(f, name) ==
  CASE f = "query" ->
         JDict(<< <<"label", JStr(name)>>, <<"aggregations", JList(<<>>)>> >>)
    [] f = "label_only" -> JDict(<< <<"label", JStr(name)>> >>)
    [] f = "aggregations_only" -> JDict(<< <<"aggregations", JNull>> >>)
    [] f = "str" -> JStr(name)

QueryItems(forms, tag) ==
  [i \in 1..Len(forms) |-> QueryItem(forms[i], <<tag, DigitChars[i]>>)]

QueryFormLists(n) == UNION {[1..k -> QueryForms] : k \in 0..n}

\* What the document has at its top level for the table queries.
TopForms == {"absent", "empty", "one", "not_list"}

TopEntry(f) ==
  CASE f = "absent" -> <<>>
    [] f = "empty" -> << <<"table_queries", JList(<<>>)>> >>
    [] f = "one" -> << <<"tableQueries", JList(QueryItems(<<"label_only">>, "T"))>> >>
    [] f = "not_list" -> << <<"app_table_queries", JStr(<<"x">>)>> >>

QueryDoc(top, deep, deeper) ==
  JDict(TopEntry(top)
        \o << <<"app", JDict(<< <<"queries", JList(QueryItems(deep, "Q"))>> >>)>>,
              <<"pages", JList(<<JDict(<< <<"tables",
                                            JList(QueryItems(deeper, "P"))>> >>)>>)>> >>)

QueryDocs ==
  {QueryDoc(top, deep, deeper) :
     top \in TopForms, deep \in QueryFormLists(MaxQueries), deeper \in QueryFormLists(1)}

InitQueries ==
  /\ pc = "start"
  /\ doc \in QueryDocs
  /\ tqs = Idle
  /\ stdout = Idle
  /\ err = Idle
  /\ steps = Idle
  /\ NoLabel
  /\ NoDesc
  /\ NoCats
  /\ NoGraph
  /\ NoMain

LoadTableQueries ==
  /\ pc = "start"
  /\ tqs' = load_table_queries(doc)
  /\ pc' = "done"
  /\ UNCHANGED <<doc, steps, labelVars, descVars, catsVars, graphVars, mainVars,
                 stdout, err>>

NextQueries == LoadTableQueries

SpecQueries == InitQueries /\ [][NextQueries]_vars

\* The elements of the lists, at any depth, whose elements all carry both
\* an 'aggregations' field and a 'label' field.
RECURSIVE C12_AllQueryLists(_)
C12_AllQueryLists(node) ==
  CASE node.t = "dict" ->
         Flatten([i \in 1..Len(node.kv) |->
           (IF C12_ListOfQueries(node.kv[i][2]) THEN node.kv[i][2].xs ELSE <<>>)
           \o C12_AllQueryLists(node.kv[i][2])])
    [] node.t = "list" ->
         Flatten([i \in 1..Len(node.xs) |-> C12_AllQueryLists(node.xs[i])])
    [] OTHER -> <<>>

C12_NoTopKey == \A k \in 1..Len(QueryKeys) : ~JHas(doc, QueryKeys[k])

\* C12: when no recognized top-level table-query key is present,
\* load_table_queries returns exactly the elements of the lists, at any
\* depth, whose elements all carry both an 'aggregations' field and a
\* 'label' field; a list in which some element lacks one of the two fields
\* contributes nothing.
C12_OnlyListsOfQueries ==
  pc = "done" /\ C12_NoTopKey => tqs = C12_AllQueryLists(doc)


(***************************************************************************)
(* main, lines 826-853: the collections are loaded and indexed, then the   *)
(* number of steps is printed.                                             *)
(***************************************************************************)
\* data.get(key) when it is a list, else the empty list.
TopList(data, key) ==
  IF data.t = "dict" /\ JGet(data, key).t = "list" THEN JGet(data, key).xs ELSE <<>>

load_variables(data) == TopList(data, "variables")

load_data_model_slots(data) ==
  TopList(data, "data_model_slots") \o TopList(data, "dataModelSlots")

load_widgets(data) == TopList(data, "widgets")

\* Whether load_triggers returns; it raises ValueError otherwise.
HasTriggers(data) ==
  \/ data.t = "dict" /\ JGet(data, "triggers").t = "list"
  \/ data.t = "list"

load_triggers(data) ==
  IF data.t = "dict" /\ JGet(data, "triggers").t = "list"
  THEN JGet(data, "triggers").xs
  ELSE data.xs

\* Whether index_by_id returns: item.get raises AttributeError on an item
\* that is not a dict.
CanIndex(items) == \A i \in 1..Len(items) : items[i].t = "dict"

\* The exceptions that end the run.
TriggersError == <<"ValueError", "Could not find a 'triggers' list in the JSON.">>
AttributeError == <<"AttributeError">>

\* The documents main is started on.
ListForms == {"absent", "empty", "dicts", "strs", "not_list"}

ListEntry(key, f, tag) ==
  CASE f = "absent" -> <<>>
    [] f = "empty" -> << <<key, JList(<<>>)>> >>
    [] f = "dicts" -> << <<key, JList(<<JDict(<< <<"_id", JStr(<<tag, "1">>)>> >>)>>)>> >>
    [] f = "strs" -> << <<key, JList(<<JStr(<<tag, "1">>)>>)>> >>
    [] f = "not_list" -> << <<key, JDict(<< <<"_id", JStr(<<tag, "1">>)>> >>)>> >>

StartDocs ==
  {JNull, JStr(<<"x">>), JList(<<>>), JList(<<JStr(<<"t", "1">>)>>),
   JList(<<JDict(<< <<"_id", JStr(<<"t", "1">>)>> >>)>>)}
  \cup
  {JDict(ListEntry("steps", s, "s") \o ListEntry("triggers", t, "t")
         \o ListEntry("widgets", w, "w") \o ListEntry("variables", v, "v")
         \o ListEntry("table_queries", q, "q")
         \o ListEntry("dataModelSlots", d, "d")) :
     s \in {"absent", "dicts"}, t \in ListForms, w \in {"absent", "dicts", "strs"},
     v \in {"absent", "dicts", "strs"}, q \in {"absent", "strs"},
     d \in {"absent", "strs"}}

InitStart ==
  /\ pc = "start"
  /\ doc \in StartDocs
  /\ tqs = <<>>
  /\ steps = <<>>
  /\ stdout = <<>>
  /\ err = None
  /\ NoLabel
  /\ NoDesc
  /\ NoCats
  /\ NoGraph
  /\ NoMain

\* Lines 831-837.
LoadReferences ==
  /\ pc = "start"
  /\ IF /\ CanIndex(load_table_queries(doc))
        /\ CanIndex(load_variables(doc))
        /\ CanIndex(load_data_model_slots(doc))
     THEN pc' = "references" /\ tqs' = load_table_queries(doc) /\ err' = err
     ELSE pc' = "failed" /\ tqs' = tqs /\ err' = AttributeError
  /\ UNCHANGED <<doc, steps, labelVars, descVars, catsVars, graphVars, mainVars,
                 stdout>>

\* Lines 839-845.
LoadCollections ==
  /\ pc = "references"
  /\ IF ~HasTriggers(doc)
     THEN pc' = "failed" /\ steps' = steps /\ err' = TriggersError
     ELSE IF ~(CanIndex(load_triggers(doc)) /\ CanIndex(load_widgets(doc)))
     THEN pc' = "failed" /\ steps' = steps /\ err' = AttributeError
     ELSE pc' = "indexed" /\ steps' = load_steps(doc) /\ err' = err
  /\ UNCHANGED <<doc, labelVars, descVars, catsVars, graphVars, mainVars, tqs,
                 stdout>>

\* Line 853.
PrintLoaded ==
  /\ pc = "indexed"
  /\ pc' = "printed"
  /\ stdout' = Append(stdout, <<"L", "o", "a", "d", "e", "d", " ">> \o IntStr(Len(steps)) \o <<" ", "s", "t", "e", "p", "(", "s", ")", ".">>)
  /\ UNCHANGED <<doc, steps, labelVars, descVars, catsVars, graphVars, mainVars,
                 tqs, err>>

NextStart == LoadReferences \/ LoadCollections \/ PrintLoaded

SpecStart == InitStart /\ [][NextStart]_vars

\* C11: when the document is neither a list nor a mapping with a list under
\* 'triggers', the run fails with the 'no triggers collection' error before
\* anything is written to the output: nothing is printed, and a run that
\* has ended has ended with that error.
C11_NoTriggersError ==
  ~HasTriggers(doc) =>
    /\ stdout = <<>>
    /\ pc \in {"start", "references", "failed"}
    /\ pc = "failed" => err = TriggersError


(***************************************************************************)
(* build_graph_for_step on its own: a step that carries its identifier     *)
(* under '_id' or under 'id', with or without a name, in the step index or *)
(* not; trigger and widget lists with repeated and unresolved identifiers; *)
(* and transition actions of every form the code tells apart.              *)
(***************************************************************************)
MaxActions == 2

StepId3 == <<"s", "3">>
StepId9 == <<"s", "9">>
Wid2 == <<"w", "2">>

\* <<identifier key, has a name, is in the step index>>
StepShapes == {<<"_id", TRUE, TRUE>>, <<"_id", FALSE, TRUE>>,
               <<"id", TRUE, TRUE>>, <<"_id", TRUE, FALSE>>}

TriggerIdLists == {<<>>, <<Trig1>>, <<Trig1, Trig2>>, <<Trig2, Trig1>>,
                   <<Trig9, Trig1>>, <<Trig1, Trig1>>}

WidgetIdLists == {<<>>, <<Wid1>>, <<Wid2, Wid1>>, <<Wid1, Wid9>>, <<Wid1, Wid1>>}

TransitionForms == {"plain", "self", "named", "nameless", "untyped", "inputs"}

Target(id) == [EmptyIV EXCEPT !.stepId = id]

TransitionAction(f) ==
  CASE f = "plain" ->
         [EmptyAction EXCEPT !.type = <<"s", "e", "t">>, !.input_values = <<Target(StepId2)>>]
    [] f = "self" ->
         [EmptyAction EXCEPT !.type = <<"g", "o", "t", "o">>, !.is_transition = TRUE,
                             !.input_values = <<Target(StepId1)>>]
    [] f = "named" ->
         [EmptyAction EXCEPT !.type = <<"g", "o", "t", "o">>, !.isTransition = TRUE,
                             !.input_values =
                               <<Target(StepId2), EmptyIV,
                                 [EmptyIV EXCEPT !.stepId = <<>>, !.step_id = StepId9]>>]
    [] f = "nameless" ->
         [EmptyAction EXCEPT !.type = <<"b", "a", "c", "k">>, !.is_transition = TRUE,
                             !.input_values = <<Target(StepId3)>>]
    [] f = "untyped" ->
         [EmptyAction EXCEPT !.actionType = <<"j", "u", "m", "p">>, !.is_transition = TRUE,
                             !.input_values = <<Target(StepId2)>>]
    [] f = "inputs" ->
         [EmptyAction EXCEPT !.type = <<"g", "o", "t", "o">>, !.is_transition = TRUE,
                             !.inputs = <<Target(StepId2)>>]

TransitionFormLists == UNION {[1..n -> TransitionForms] : n \in 0..MaxActions}

\* Trigger t1 has one clause per action; trigger t2 has one clause of one
\* transition to step s2.
BuildTriggers(forms) ==
  <<[EmptyTrigger(Trig1) EXCEPT
       !.name = <<"F", "i", "r", "s", "t">>,
       !.eventType = <<"s", "t", "e", "p", "_", "o", "p", "e", "n">>,
       !.clauses = [k \in 1..Len(forms) |->
                      [conditions |-> <<>>, actions |-> <<TransitionAction(forms[k])>>]]],
    [EmptyTrigger(None) EXCEPT
       !.id = Trig2,
       !.clauses = <<[conditions |-> <<>>,
                      actions |-> <<[EmptyAction EXCEPT !.type = <<"n", "e", "x", "t">>,
                                                        !.isTransition = TRUE,
                                                        !.input_values = <<Target(StepId2)>>]>>]>>]>>

\* Widget w1 exposes triggers that resolve (wide) or only one that does not;
\* widget w2 exposes no trigger identifier.
BuildWidgets(wide) ==
  <<[EmptyWidget(Wid1) EXCEPT
       !.name = <<"G", "o">>,
       !.triggers = IF wide THEN <<Trig1, Trig9>> ELSE <<Trig9>>,
       !.config = IF wide THEN [EmptyContainer EXCEPT !.trigger_ids = <<Trig2, Trig1>>]
                  ELSE NoDict],
    [EmptyWidget(Wid2) EXCEPT !.label = <<"S", "t", "i", "l", "l">>, !.triggers = <<NotStr>>]>>

BuildStep(shape, trigger_ids, widget_ids) ==
  [EmptyStep(IF shape[1] = "_id" THEN StepId1 ELSE None) EXCEPT
     !.id = IF shape[1] = "id" THEN StepId1 ELSE None,
     !.name = IF shape[2] THEN <<"P", "a", "c", "k">> ELSE None,
     !.triggers = trigger_ids,
     !.widgets = widget_ids]

BuildSteps(shape, the_step) ==
  (IF shape[3] THEN <<the_step>> ELSE <<>>)
  \o <<[EmptyStep(StepId2) EXCEPT !.name = <<"N", "e", "x", "t">>], EmptyStep(StepId3)>>

InitBuild ==
  /\ pc = "start"
  /\ \E shape \in StepShapes, trigger_ids \in TriggerIdLists,
        widget_ids \in WidgetIdLists, forms \in TransitionFormLists,
        wide \in BOOLEAN :
       /\ step = BuildStep(shape, trigger_ids, widget_ids)
       /\ steps_index = index_by_id(BuildSteps(shape, BuildStep(shape, trigger_ids, widget_ids)))
       /\ trig_index = index_by_id(BuildTriggers(forms))
       /\ widget_index = index_by_id(BuildWidgets(wide))
  /\ graph = NotYet
  /\ calls = Idle
  /\ logic_triggers = Idle /\ mermaid = Idle /\ twin = Idle
  /\ NoSteps
  /\ NoLabel
  /\ NoDesc
  /\ NoCats
  /\ NoStart

BuildGraphForStep ==
  /\ pc = "start"
  /\ pc' = "done"
  /\ graph' = build_graph_for_step(step, trig_index, widget_index, steps_index)
  /\ UNCHANGED <<stepsVars, labelVars, descVars, catsVars, calls, step, trig_index,
                 widget_index, steps_index, logic_triggers, mermaid, twin, startVars>>

NextBuild == BuildGraphForStep

SpecBuild == InitBuild /\ [][NextBuild]_vars


\* The action's type tag and its input values, as lines 756-757 read them.
C13_TypeTag(a) == PyOr(a.type, a.actionType)
C13_Target(v) == PyOr(v.stepId, v.step_id)

\* <<p, c, a, k>>: input value k of transition action a of clause c of the
\* resolving trigger at position p of the step's trigger list carries a
\* target step identifier.
C13_Transitions ==
  {x \in (1..Len(step.triggers)) \X (1..MaxActions + 1) \X (1..1) \X (1..3) :
     /\ Indexed(trig_index, step.triggers[x[1]])
     /\ x[2] <= Len(trig_index[step.triggers[x[1]]].clauses)
     /\ x[3] <= Len(trig_index[step.triggers[x[1]]].clauses[x[2]].actions)
     /\ LET a == trig_index[step.triggers[x[1]]].clauses[x[2]].actions[x[3]]
        IN /\ a.is_transition \/ a.isTransition
           /\ x[4] <= Len(InputValuesOf(a))
           /\ Truthy(C13_Target(InputValuesOf(a)[x[4]]))}

C13_Action(x) == trig_index[step.triggers[x[1]]].clauses[x[2]].actions[x[3]]
C13_TargetOf(x) == C13_Target(InputValuesOf(C13_Action(x))[x[4]])

\* The transition edges from the node of trigger tid to the node of step T.
C13_Edges(tid, T) ==
  {e \in 1..Len(graph.edges) :
     /\ graph.edges[e].kind = "transition"
     /\ graph.edges[e].src = <<"t", "r", "i", "g", "_">> \o tid
     /\ graph.edges[e].dst = <<"s", "t", "e", "p", "_">> \o T}

\* C13: for every directly attached trigger of the step that resolves,
\* every clause, every action flagged as a step transition and every input
\* value of it carrying a target step identifier T, the graph has one
\* transition edge from the trigger's node to the node of step T labeled
\* with the action's type tag, and the node of T is labeled with T's name
\* when T is in the step index and with the raw identifier T otherwise.
C13_TransitionEdges ==
  pc = "done" =>
    /\ \A x \in C13_Transitions :
         /\ \E e \in C13_Edges(step.triggers[x[1]], C13_TargetOf(x)) :
              graph.edges[e].label = C13_TypeTag(C13_Action(x))
         /\ HasNode(graph, <<"s", "t", "e", "p", "_">> \o C13_TargetOf(x))
         /\ NodeOf(graph, <<"s", "t", "e", "p", "_">> \o C13_TargetOf(x)).label =
              IF Indexed(steps_index, C13_TargetOf(x))
              THEN steps_index[C13_TargetOf(x)].name ELSE C13_TargetOf(x)
    /\ Cardinality({e \in 1..Len(graph.edges) : graph.edges[e].kind = "transition"})
         = Cardinality(C13_Transitions)


\* The strings under the three trigger keys of a widget or a container.
C14_Listed(d) ==
  {d.triggers[i] : i \in 1..Len(d.triggers)}
  \cup {d.triggerIds[i] : i \in 1..Len(d.triggerIds)}
  \cup {d.trigger_ids[i] : i \in 1..Len(d.trigger_ids)}

\* The trigger identifiers a widget exposes, directly or in a container.
C14_Exposed(w) ==
  (C14_Listed(w)
   \cup UNION {C14_Listed(c) : c \in {x \in {w.props, w.properties, w.config, w.options} :
                                        IsDict(x)}})
  \ {NotStr, None}

C14_Occurrences(wid) == Cardinality({i \in 1..Len(step.widgets) : step.widgets[i] = wid})

C14_WidgetIds == {step.widgets[i] : i \in 1..Len(step.widgets)}

\* The widget identifiers of the step that get a node.
C14_Shown ==
  {wid \in C14_WidgetIds :
     Indexed(widget_index, wid) /\ C14_Exposed(widget_index[wid]) # {}}

C14_ClickEdges(wid, tid) ==
  {e \in 1..Len(graph.edges) :
     graph.edges[e] = [src |-> <<"w", "i", "d", "_">> \o wid, dst |-> <<"t", "r", "i", "g", "_">> \o tid,
                       kind |-> "widget_event", label |-> <<"c", "l", "i", "c", "k">>]}

\* C14: build_graph_for_step adds a widget node for a widget identifier of
\* the step exactly when the identifier resolves in the widget index and the
\* widget exposes at least one trigger identifier; for each of that widget's
\* trigger identifiers that resolves in the trigger index it adds one
\* widget_event edge labeled 'click' from the widget node to that trigger's
\* node; trigger identifiers that do not resolve give no node and no edge.
C14_WidgetNodesAndEdges ==
  pc = "done" =>
    /\ \A wid \in C14_WidgetIds : HasNode(graph, <<"w", "i", "d", "_">> \o wid) <=> wid \in C14_Shown
    /\ \A n \in 1..Len(graph.nodes) :
         graph.nodes[n].kind = "widget" =>
           \E wid \in C14_Shown : graph.nodes[n].id = <<"w", "i", "d", "_">> \o wid
    /\ \A wid \in C14_Shown : \A tid \in C14_Exposed(widget_index[wid]) :
         IF Indexed(trig_index, tid)
         THEN /\ Cardinality(C14_ClickEdges(wid, tid)) = C14_Occurrences(wid)
              /\ HasNode(graph, <<"t", "r", "i", "g", "_">> \o tid)
              /\ NodeOf(graph, <<"t", "r", "i", "g", "_">> \o tid).kind = "trigger"
         ELSE /\ ~HasNode(graph, <<"t", "r", "i", "g", "_">> \o tid)
              /\ \A e \in 1..Len(graph.edges) : graph.edges[e].dst # <<"t", "r", "i", "g", "_">> \o tid
    /\ \A e \in 1..Len(graph.edges) :
         graph.edges[e].kind = "widget_event" =>
           \E wid \in C14_Shown :
             \E tid \in C14_Exposed(widget_index[wid]) : e \in C14_ClickEdges(wid, tid)

\* A graph of a step whose widget list names w2, which exposes no trigger
\* identifier, and w1, which exposes t1 twice, t2, and the unresolved t9.
C14_Witness ==
  /\ pc = "done"
  /\ step.widgets = <<Wid2, Wid1>>
  /\ C14_Exposed(widget_index[Wid1]) = {Trig1, Trig2, Trig9}
  /\ ~HasNode(graph, <<"w", "i", "d", "_", "w", "2">>)
  /\ HasNode(graph, <<"w", "i", "d", "_", "w", "1">>)
  /\ Cardinality(C14_ClickEdges(Wid1, Trig1)) = 1
  /\ Cardinality(C14_ClickEdges(Wid1, Trig2)) = 1

\* C17: the graph holds at most one step node per step identifier: a
\* transition whose target is the identifier of the inspected step (under
\* '_id' or 'id') leads to the inspected step's own node, the first node of
\* the graph, which keeps its label, and no other node is made for the step.
C17_OneNodeForTheStep ==
  pc = "done" =>
    /\ graph.nodes[1].kind = "step"
    /\ graph.nodes[1].label = PyOr(step.name, IdOf(step))
    /\ \A e \in 1..Len(graph.edges) :
         graph.edges[e].dst = <<"s", "t", "e", "p", "_">> \o IdOf(step) =>
           graph.edges[e].dst = graph.nodes[1].id
    /\ \A n \in 2..Len(graph.nodes) : graph.nodes[n].id # <<"s", "t", "e", "p", "_">> \o IdOf(step)


\* An edge without its label.
C15_Edge(kind, src, dst) == [kind |-> kind, src |-> src, dst |-> dst]
C15_Unlabelled(e) == C15_Edge(e.kind, e.src, e.dst)

\* The transition edges of a trigger, in clause, action and input-value
\* order.
C15_TransitionEdges(tid) ==
  LET clauses == trig_index[tid].clauses
  IN Flatten([c \in 1..Len(clauses) |->
       Flatten([a \in 1..Len(clauses[c].actions) |->
         LET act == clauses[c].actions[a]
             ivs == IF act.is_transition \/ act.isTransition
                    THEN SelectSeq(act.input_values,
                                   LAMBDA v : Truthy(PyOr(v.stepId, v.step_id)))
                    ELSE <<>>
         IN [k \in 1..Len(ivs) |->
               C15_Edge("transition", <<"t", "r", "i", "g", "_">> \o tid,
                        <<"s", "t", "e", "p", "_">> \o PyOr(ivs[k].stepId, ivs[k].step_id))]])])

\* The edges of the directly attached triggers, in the order of the step's
\* trigger list: the event edge of each, then its transition edges.
C15_TriggerEdges ==
  Flatten([p \in 1..Len(step.triggers) |->
    IF ~Indexed(trig_index, step.triggers[p]) THEN <<>>
    ELSE <<C15_Edge("event", graph.nodes[1].id, <<"t", "r", "i", "g", "_">> \o step.triggers[p])>>
         \o C15_TransitionEdges(step.triggers[p])])

\* The widget_event edges, in the order of the step's widget list and, for
\* each widget, of the first occurrence of each of its trigger identifiers.
C15_WidgetEdges ==
  Flatten([p \in 1..Len(step.widgets) |->
    IF ~Indexed(widget_index, step.widgets[p]) THEN <<>>
    ELSE LET w == widget_index[step.widgets[p]]
             cs == <<w.props, w.properties, w.config, w.options>>
             listed == w.triggers \o w.triggerIds \o w.trigger_ids
                       \o Flatten([i \in 1..4 |->
                            IF IsDict(cs[i])
                            THEN cs[i].triggers \o cs[i].triggerIds \o cs[i].trigger_ids
                            ELSE <<>>])
             firsts == {i \in 1..Len(listed) :
                          /\ listed[i] \notin {NotStr, None}
                          /\ Indexed(trig_index, listed[i])
                          /\ \A j \in 1..(i - 1) : listed[j] # listed[i]}
         IN [k \in 1..Cardinality(firsts) |->
               C15_Edge("widget_event", <<"w", "i", "d", "_">> \o step.widgets[p],
                        <<"t", "r", "i", "g", "_">> \o listed[Nth(firsts, k)])]])

\* C15: the edges of the graph are, in this order: for each trigger
\* identifier in the order of the step's trigger list, its event edge and
\* then its transition edges in clause, action and input-value order; then,
\* for each widget identifier in the order of the step's widget list, its
\* widget_event edges in the widget's trigger order.  No edge of a widget
\* precedes an edge of a directly attached trigger, and the step node is the
\* first node.
C15_EdgeOrder ==
  pc = "done" =>
    /\ graph.nodes[1].kind = "step"
    /\ graph.nodes[1].id = <<"s", "t", "e", "p", "_">> \o PyStr(step._id)
    /\ [e \in 1..Len(graph.edges) |-> C15_Unlabelled(graph.edges[e])]
         = C15_TriggerEdges \o C15_WidgetEdges
    /\ \A e \in 1..Len(graph.edges) : \A f \in 1..Len(graph.edges) :
         graph.edges[e].kind = "widget_event" /\ graph.edges[f].kind # "widget_event"
           => f < e

\* A graph of a step with triggers t2 and t1, in this order, and widget w1:
\* t1 has two transitions, and w1 invokes t1 and t2.
C15_Witness ==
  /\ pc = "done"
  /\ step.triggers = <<Trig2, Trig1>>
  /\ step.widgets = <<Wid1, Wid9>>
  /\ Len(C15_TransitionEdges(Trig1)) >= 2
  /\ Len(C15_WidgetEdges) = 2
  /\ Len(graph.edges) = Len(C15_TriggerEdges) + 2
  /\ graph.edges[1].dst = <<"t", "r", "i", "g", "_", "t", "2">>

C18_Kind(node_id) == NodeOf(graph, node_id).kind

\* C18: in every graph returned by build_graph_for_step the source and the
\* destination of every edge are ids of nodes of the graph; every event edge
\* goes from the inspected step's node to a trigger node, every transition
\* edge from a trigger node to a step node, and every widget_event edge from
\* a widget node to a trigger node.
C18_EdgesJoinNodes ==
  pc = "done" =>
    \A e \in 1..Len(graph.edges) :
      LET edge == graph.edges[e]
      IN /\ HasNode(graph, edge.src)
         /\ HasNode(graph, edge.dst)
         /\ edge.kind \in {"event", "transition", "widget_event"}
         /\ edge.kind = "event" =>
              edge.src = graph.nodes[1].id /\ C18_Kind(edge.src) = "step"
              /\ C18_Kind(edge.dst) = "trigger"
         /\ edge.kind = "transition" =>
              C18_Kind(edge.src) = "trigger" /\ C18_Kind(edge.dst) = "step"
         /\ edge.kind = "widget_event" =>
              C18_Kind(edge.src) = "widget" /\ C18_Kind(edge.dst) = "trigger"

\* A graph with an event edge, a transition edge to a step that is not in
\* the step index, and a widget_event edge.
C18_Witness ==
  /\ pc = "done"
  /\ \E e \in 1..Len(graph.edges) : graph.edges[e].kind = "event"
  /\ \E e \in 1..Len(graph.edges) :
       graph.edges[e].kind = "transition" /\ graph.edges[e].dst = <<"s", "t", "e", "p", "_", "s", "9">>
  /\ \E e \in 1..Len(graph.edges) : graph.edges[e].kind = "widget_event"
  /\ step._id = None


\* The number of places of the text where pat starts.
C16_Count(pat, txt) == Cardinality({i \in 1..Len(txt) : MatchesAt(txt, pat, i)})

\* The text with a line break before its first line and after its last.
C16_Text == <<"\n">> \o mermaid \o <<"\n">>

C16_Node(trig) == <<"t", "r", "i", "g", "_">> \o IdOf(trig)

\* The 'Logic' sub-diagrams of a trigger, and the edges from its node to
\* the start marker of its sub-diagram.
C16_SubDiagrams(trig) ==
  C16_Count(<<"\n">> \o <<" ", " ", "s", "u", "b", "g", "r", "a", "p", "h", " ">> \o C16_Node(trig) \o <<"_", "l", "o", "g", "i", "c", "[", "\"", "L", "o", "g", "i", "c", ":", " ">>, C16_Text)
C16_EntryEdges(trig) ==
  C16_Count(<<"\n">> \o <<" ", " ">> \o C16_Node(trig) \o <<" ", "-", "-", ">", " ">> \o C16_Node(trig)
            \o <<"_", "s", "t", "a", "r", "t">> \o <<"\n">>, C16_Text)

\* C16: in the run of main for a found step, the relevant triggers (direct
\* plus widget-invoked, one per distinct identifier) and the trigger nodes of
\* the graph correspond one to one: every relevant trigger has exactly one
\* 'Logic' sub-diagram, its node is in the graph, and the diagram has exactly
\* one edge from that node to the sub-diagram's start marker; no trigger
\* node of the graph is without a sub-diagram.
C16_TriggersAndNodes ==
  pc = "done" /\ mermaid # None =>
    /\ \A s \in 1..Len(logic_triggers) : \A t \in 1..Len(logic_triggers) :
         IdOf(logic_triggers[s]) = IdOf(logic_triggers[t]) => s = t
    /\ \A t \in 1..Len(logic_triggers) :
         /\ C16_SubDiagrams(logic_triggers[t]) = 1
         /\ HasNode(graph, C16_Node(logic_triggers[t]))
         /\ NodeOf(graph, C16_Node(logic_triggers[t])).kind = "trigger"
         /\ C16_EntryEdges(logic_triggers[t]) = 1
    /\ \A n \in 1..Len(graph.nodes) :
         graph.nodes[n].kind = "trigger" =>
           \E t \in 1..Len(logic_triggers) :
             /\ C16_Node(logic_triggers[t]) = graph.nodes[n].id
             /\ C16_SubDiagrams(logic_triggers[t]) = 1
    /\ C16_Count(<<"\n">> \o <<" ", " ", "s", "u", "b", "g", "r", "a", "p", "h", " ">>, C16_Text) = Len(logic_triggers)

\* A diagram of a step with the direct trigger t1 and a widget that invokes
\* t2 and t1: two relevant triggers, t2 reached through the widget only.
C16_Witness ==
  /\ pc = "done"
  /\ mermaid # None
  /\ step.triggers = <<Trig1, Trig9>>
  /\ Len(logic_triggers) = 2
  /\ IdOf(logic_triggers[2]) = Trig2
  /\ HasNode(graph, <<"w", "i", "d", "_", "w", "1">>)
  /\ C16_EntryEdges(logic_triggers[2]) = 1

====
